---- MODULE Spec2Model ----
(***************************************************************************)
(* langcode: the hook registry, the hook execution engine and the          *)
(* tool-call policy middleware.                                            *)
(*                                                                         *)
(* Texts that the code only stores, compares or prints (commands, prompt   *)
(* texts, file paths, hook stdout) are TLA+ strings.  Texts that the code  *)
(* hands to the regex engine (matchers, match values, tool names) are      *)
(* sequences of one-character strings, so that re.compile / search can be  *)
(* computed on them.                                                       *)
(***************************************************************************)
EXTENDS Integers, Sequences, FiniteSets, TLC

VARIABLES
    hooks,      \* Config.hooks: the HooksConfig of the running process
    call,       \* the last tool call an agent made and what became of it
    dispatch,   \* the last direct execute_hooks call and its result
    mergeIn,    \* <<A, B, C>>: three HooksConfig objects to be merged
    mergeOut,   \* the registries HooksConfig.merge produced from mergeIn
    matchIn,    \* <<matcher, value>>: the input of HookRule.matches
    matchOut,   \* what HookRule.matches returned for matchIn
    stop,       \* the last run_stop_hooks / run_subagent_stop_hooks call
    load,       \* the settings files on disk and the Config loaded from them
    legacy,     \* a legacy hooks map, its conversion and a match against it
    world,      \* the plugin cache, the marketplaces and the settings on disk
    pluginLoad, \* a directory handed to load_plugin and the Plugin it gave
    clone,      \* a source handed to the marketplace code and the git command run
    components, \* a plugin's config files and what _discover_components made of them
    startup     \* the plugin directories given at start-up and the plugins loaded

hookVars == <<hooks, call, dispatch, mergeIn, mergeOut, matchIn, matchOut>>
unitVars == <<pluginLoad, clone, components, startup>>
vars == <<hookVars, stop, load, legacy, world, unitVars>>

----------------------------------------------------------------------------
(* Bounds of the model *)

MaxMatcherLen == 3      \* longest matcher text drawn for HookRule.matches
MaxValueLen == 2        \* longest match value drawn for HookRule.matches
MaxScopeRules == 1      \* rules in one merged scope registry
MaxEngineRules == 2     \* rules in a registry handed to execute_hooks
MaxRules == 2           \* rules in the registry of a running agent
MaxHooks == 2           \* hooks in the rule of a registry dispatched for its outcome
MaxStopRules == 2       \* rules in the registry of an agent ending its turn
MaxToolNameLen == 2     \* longest tool name of a legacy entry and of a call
MaxOps == 3             \* plugin commands in one session

----------------------------------------------------------------------------
(* Texts *)

RECURSIVE SeqsUpTo(_, _)
SeqsUpTo(S, n) ==
    IF n = 0 THEN {<<>>}
    ELSE LET shorter == SeqsUpTo(S, n - 1)
         IN  shorter \cup {Append(s, c) : s \in {t \in shorter : Len(t) = n - 1}, c \in S}

Star == <<"*">>
Write == <<"W", "r", "i", "t", "e">>
Bash == <<"B", "a", "s", "h">>

\* str.lower() on one character
ToLower ==
    [A |-> "a", B |-> "b", C |-> "c", D |-> "d", E |-> "e", F |-> "f", G |-> "g",
     H |-> "h", I |-> "i", J |-> "j", K |-> "k", L |-> "l", M |-> "m", N |-> "n",
     O |-> "o", P |-> "p", Q |-> "q", R |-> "r", S |-> "s", T |-> "t", U |-> "u",
     V |-> "v", W |-> "w", X |-> "x", Y |-> "y", Z |-> "z"]

lower(ch) == IF ch \in DOMAIN ToLower THEN ToLower[ch] ELSE ch

----------------------------------------------------------------------------
(* Python's re, restricted to the patterns the model draws: literals, ".", *)
(* "\" followed by a special character, a postfix "*", top-level "|", and  *)
(* "[" (which, with no "]" in any alphabet of the model, never closes).    *)

Specials == {".", "^", "$", "*", "+", "?", "{", "}", "[", "]", "\\", "|", "(", ")"}
Unmodelled == {"^", "$", "+", "?", "{", "}", "]", "(", ")"}

\* The pattern stays inside the modelled fragment: no unmodelled special
\* character, and a backslash escapes only a special character.
RECURSIVE InFragmentFrom(_, _)
InFragmentFrom(p, i) ==
    IF i > Len(p) THEN TRUE
    ELSE IF p[i] = "\\"
         THEN IF i = Len(p) THEN TRUE
              ELSE p[i + 1] \in Specials /\ InFragmentFrom(p, i + 2)
         ELSE p[i] \notin Unmodelled /\ InFragmentFrom(p, i + 1)

InFragment(p) == InFragmentFrom(p, 1)

Lit(ch) == [kind |-> "lit", ch |-> ch, star |-> FALSE]
AnyChar == [kind |-> "any", ch |-> ".", star |-> FALSE]
CompileError == [ok |-> FALSE, alts |-> <<>>]

\* re.compile: the alternatives of the pattern, each a sequence of items,
\* or the re.error the parser raises.
RECURSIVE ParseFrom(_, _, _, _)
ParseFrom(p, i, alts, cur) ==
    IF i > Len(p) THEN [ok |-> TRUE, alts |-> Append(alts, cur)]
    ELSE LET c == p[i] IN
         CASE c = "\\" ->
                IF i = Len(p) THEN CompileError   \* bad escape (end of pattern)
                ELSE ParseFrom(p, i + 2, alts, Append(cur, Lit(p[i + 1])))
           [] c = "." -> ParseFrom(p, i + 1, alts, Append(cur, AnyChar))
           [] c = "[" -> CompileError             \* unterminated character set
           [] c = "*" ->
                IF cur = <<>> THEN CompileError   \* nothing to repeat
                ELSE IF cur[Len(cur)].star THEN CompileError   \* multiple repeat
                ELSE ParseFrom(p, i + 1, alts,
                               [cur EXCEPT ![Len(cur)].star = TRUE])
           [] c = "|" -> ParseFrom(p, i + 1, Append(alts, cur), <<>>)
           [] OTHER -> ParseFrom(p, i + 1, alts, Append(cur, Lit(c)))

re_compile(p) == ParseFrom(p, 1, <<>>, <<>>)

ItemMatches(item, ch, ignorecase) ==
    \/ item.kind = "any"
    \/ item.kind = "lit" /\ (IF ignorecase THEN lower(item.ch) = lower(ch)
                                           ELSE item.ch = ch)

\* items[k..] match a prefix of s[j..]
RECURSIVE MatchHere(_, _, _, _, _)
MatchHere(items, k, s, j, ignorecase) ==
    IF k > Len(items) THEN TRUE
    ELSE IF items[k].star
         THEN \/ MatchHere(items, k + 1, s, j, ignorecase)
              \/ /\ j <= Len(s)
                 /\ ItemMatches(items[k], s[j], ignorecase)
                 /\ MatchHere(items, k, s, j + 1, ignorecase)
         ELSE /\ j <= Len(s)
              /\ ItemMatches(items[k], s[j], ignorecase)
              /\ MatchHere(items, k + 1, s, j + 1, ignorecase)

\* Pattern.search(value) is not None
re_search(compiled, s, ignorecase) ==
    \E a \in 1..Len(compiled.alts) :
        \E j \in 1..(Len(s) + 1) : MatchHere(compiled.alts[a], 1, s, j, ignorecase)

----------------------------------------------------------------------------
(* hooks/models.py *)

HOOK_EVENTS ==
    {"PreToolUse", "PostToolUse", "Stop", "SubagentStop", "SessionStart",
     "SessionEnd", "UserPromptSubmit", "PreCompact", "Notification"}

DEFAULT_TIMEOUT == 30

HookDef(type, command, prompt) ==
    [type |-> type, command |-> command, prompt |-> prompt, timeout |-> DEFAULT_TIMEOUT]

HookRule(matcher, hookSeq) == [matcher |-> matcher, hooks |-> hookSeq]

\* HooksConfig(): every event with an empty rule list
EmptyHooksConfig == [e \in HOOK_EVENTS |-> <<>>]

\* HooksConfig(event=[rules])
HooksConfigWith(event, rules) == [EmptyHooksConfig EXCEPT ![event] = rules]

\* HookRule.matches, compiled without flags: the search is case-sensitive
matches(rule, value) ==
    IF rule.matcher = Star THEN TRUE
    ELSE LET compiled == re_compile(rule.matcher)
         IN  IF ~compiled.ok THEN rule.matcher = value
             ELSE re_search(compiled, value, FALSE)

\* a lookup that falls back on the PreToolUse rules for an event without any
get_rules_with_fallback(config, event) ==
    IF config[event] = <<>> THEN config["PreToolUse"] ELSE config[event]

get_rules(config, event) == config[event]

\* HooksConfig.merge(self, other): what self holds afterwards
\* a merge in which a scope's rules replace the rules collected so far
merge_replacing(self, other) ==
    [e \in HOOK_EVENTS |-> IF other[e] # <<>> THEN other[e] ELSE self[e]]

merge(self, other) == [e \in HOOK_EVENTS |-> self[e] \o other[e]]

----------------------------------------------------------------------------
(* Python values the engine handles *)

EmptyDict == [k \in {} |-> ""]

\* {**b, **a}: the operands swapped, the original arguments win
DictMergeSwapped(a, b) ==
    [k \in (DOMAIN a) \cup (DOMAIN b) |-> IF k \in DOMAIN a THEN a[k] ELSE b[k]]

\* {**a, **b}
DictMerge(a, b) ==
    [k \in (DOMAIN a) \cup (DOMAIN b) |-> IF k \in DOMAIN b THEN b[k] ELSE a[k]]

\* a decoded JSON value, as far as the engine looks into it
JObject(members) == [type |-> "object", members |-> members]
JNumber == [type |-> "number", members |-> EmptyDict]
JString == [type |-> "string", members |-> EmptyDict]
None == [type |-> "none", members |-> EmptyDict]

\* bool(v): None and {} are falsy; the number and the string of the model are not
Truthy(v) ==
    CASE v.type = "none" -> FALSE
      [] v.type = "object" -> DOMAIN v.members # {}
      [] OTHER -> TRUE

----------------------------------------------------------------------------
(* What a hook process can print, and what str.strip, str.startswith("{")  *)
(* and json.loads make of it.                                              *)

OutEmpty == ""
OutText == "ok\n"
OutBlank == "  \n"
OutBadJson == "{oops"
OutDeny == "{\"hookSpecificOutput\": {\"permissionDecision\": \"deny\"}}"
OutAllow == "{\"hookSpecificOutput\": {\"permissionDecision\": \"allow\"}}"
OutAsk == "{\"hookSpecificOutput\": {\"permissionDecision\": \"ask\"}}"
OutMaybe == "{\"hookSpecificOutput\": {\"permissionDecision\": \"maybe\"}}"
OutPatch == "{\"hookSpecificOutput\": {\"updatedInput\": {\"file_path\": \"/b\"}}}"
OutPatchText == "{\"hookSpecificOutput\": {\"updatedInput\": \"x\"}}"
OutHsoNumber == "{\"hookSpecificOutput\": 5}"
OutBlock == "{\"decision\": \"block\", \"reason\": \"X\"}"
OutApprove == "{\"decision\": \"approve\"}"
OutSysMsg == "{\"systemMessage\": \"note\"}"
OutLater == "{\"decision\": \"later\"}"

strip(s) ==
    CASE s = OutText -> "ok"
      [] s = OutBlank -> ""
      [] s = "err\n" -> "err"
      [] OTHER -> s

StartsWithBrace(s) ==
    s \in {OutBadJson, OutDeny, OutAllow, OutAsk, OutMaybe, OutPatch, OutPatchText,
           OutHsoNumber, OutBlock, OutApprove, OutSysMsg, OutLater}

JsonDecodeError == [ok |-> FALSE, data |-> EmptyDict]
Decoded(d) == [ok |-> TRUE, data |-> d]

json_loads(s) ==
    CASE s = OutDeny ->
           Decoded([hookSpecificOutput |-> JObject([permissionDecision |-> "deny"])])
      [] s = OutAllow ->
           Decoded([hookSpecificOutput |-> JObject([permissionDecision |-> "allow"])])
      [] s = OutAsk ->
           Decoded([hookSpecificOutput |-> JObject([permissionDecision |-> "ask"])])
      [] s = OutMaybe ->
           Decoded([hookSpecificOutput |-> JObject([permissionDecision |-> "maybe"])])
      [] s = OutPatch ->
           Decoded([hookSpecificOutput |->
                      JObject([updatedInput |-> JObject([file_path |-> "/b"])])])
      [] s = OutPatchText ->
           Decoded([hookSpecificOutput |-> JObject([updatedInput |-> JString])])
      [] s = OutHsoNumber -> Decoded([hookSpecificOutput |-> JNumber])
      [] s = OutBlock -> Decoded([decision |-> "block", reason |-> "X"])
      [] s = OutApprove -> Decoded([decision |-> "approve"])
      [] s = OutSysMsg -> Decoded([systemMessage |-> "note"])
      [] s = OutLater -> Decoded([decision |-> "later"])
      [] OTHER -> JsonDecodeError

----------------------------------------------------------------------------
(* hooks/engine.py *)

CONFIRM == "__confirm__"

\* HookResult()
HookResult ==
    [permission |-> "allow", updated_input |-> None, decision |-> "approve",
     reason |-> "", messages |-> <<>>]

\* what subprocess.run did: it completed, it ran out of time, or it failed
\* to start
Completed(rc, out, err) ==
    [kind |-> "completed", returncode |-> rc, stdout |-> out, stderr |-> err]
TimeoutExpired == [kind |-> "timeout", returncode |-> 0, stdout |-> "", stderr |-> ""]
SpawnFailure == [kind |-> "oserror", returncode |-> 0, stdout |-> "", stderr |-> "no such shell"]

\* run_command_hook: (exit_code, stdout, stderr) for what the process did
run_command_hook(hook, variables, proc) ==
    CASE proc.kind = "completed" ->
           [exit_code |-> proc.returncode, stdout |-> proc.stdout, stderr |-> proc.stderr]
      [] proc.kind = "timeout" ->
           [exit_code |-> -1, stdout |-> "", stderr |-> "hook timed out"]
      [] OTHER ->
           [exit_code |-> -1, stdout |-> "", stderr |-> proc.stderr]

\* the command the shell is given and the variables substituted into it
Spawn(hook, variables) == [command |-> hook.command, variables |-> variables]

\* _parse_hook_output(stdout, event, result): result afterwards, or the
\* TypeError of `"permissionDecision" in hso` for an hso that is no container
Returned(result) == [raised |-> FALSE, result |-> result]
Raised(result) == [raised |-> TRUE, result |-> result]

ParseHso(hso, result) ==
    IF ~Truthy(hso) THEN Returned(result)
    ELSE IF hso.type = "number" THEN Raised(result)
    ELSE LET r1 == IF "permissionDecision" \in DOMAIN hso.members
                   THEN [result EXCEPT !.permission = hso.members.permissionDecision]
                   ELSE result
             r2 == IF "updatedInput" \in DOMAIN hso.members
                   THEN [r1 EXCEPT !.updated_input = hso.members.updatedInput]
                   ELSE r1
         IN  Returned(r2)

ParseTopLevel(data, result) ==
    LET r1 == IF "decision" \in DOMAIN data
              THEN [result EXCEPT !.decision = data.decision] ELSE result
        r2 == IF "reason" \in DOMAIN data
              THEN [r1 EXCEPT !.reason = data.reason] ELSE r1
        r3 == IF "systemMessage" \in DOMAIN data /\ data.systemMessage # ""
              THEN [r2 EXCEPT !.messages = Append(@, data.systemMessage)] ELSE r2
    IN  r3

parse_hook_output(stdout, event, result) ==
    IF stdout = "" \/ ~StartsWithBrace(stdout) THEN Returned(result)
    ELSE LET loaded == json_loads(stdout) IN
         IF ~loaded.ok THEN Returned(result)
         ELSE LET hso == IF "hookSpecificOutput" \in DOMAIN loaded.data
                         THEN loaded.data.hookSpecificOutput
                         ELSE JObject(EmptyDict)
                  afterHso == ParseHso(hso, result)
              IN  IF afterHso.raised THEN afterHso
                  ELSE Returned(ParseTopLevel(loaded.data, afterHso.result))

\* one iteration of `for hook in rule.hooks`; st is the engine's progress:
\* the result so far, the processes spawned so far, whether an exception
\* has ended the call
RunHook(hook, event, variables, env, st) ==
    IF st.raised THEN st
    ELSE IF hook.type = "command"
    THEN IF hook.command = CONFIRM
         THEN [st EXCEPT !.result.permission = "ask"]
         ELSE LET ran == run_command_hook(hook, variables, env[Len(st.spawned) + 1])
                  out == strip(ran.stdout)
                  err == strip(ran.stderr)
                  m1 == IF out # "" THEN Append(st.result.messages, out)
                        ELSE st.result.messages
                  m2 == IF ran.exit_code = 2 /\ err # "" THEN Append(m1, err) ELSE m1
                  parsed == parse_hook_output(out, event, [st.result EXCEPT !.messages = m2])
              IN  [raised |-> parsed.raised, result |-> parsed.result,
                   spawned |-> Append(st.spawned, Spawn(hook, variables))]
    ELSE IF hook.type = "prompt" /\ hook.prompt # ""
    THEN [st EXCEPT !.result.messages = Append(@, hook.prompt)]
    ELSE st

RECURSIVE RunHooks(_, _, _, _, _, _)
RunHooks(hookSeq, i, event, variables, env, st) ==
    IF i > Len(hookSeq) THEN st
    ELSE RunHooks(hookSeq, i + 1, event, variables, env,
                  RunHook(hookSeq[i], event, variables, env, st))

RECURSIVE RunRules(_, _, _, _, _, _, _)
RunRules(rules, i, event, match_value, variables, env, st) ==
    IF i > Len(rules) THEN st
    ELSE RunRules(rules, i + 1, event, match_value, variables, env,
                  IF matches(rules[i], match_value)
                  THEN RunHooks(rules[i].hooks, 1, event, variables, env, st)
                  ELSE st)

\* execute_hooks(config, event, match_value, variables); env[k] is what the
\* k-th process the call spawns does
execute_hooks(config, event, match_value, variables, env) ==
    RunRules(get_rules(config, event), 1, event, match_value, variables, env,
             [raised |-> FALSE, result |-> HookResult, spawned |-> <<>>])

\* how many processes a call may spawn: the command hooks, other than the
\* confirm sentinel, of the rules that fire
RECURSIVE CommandHooks(_, _)
CommandHooks(hookSeq, i) ==
    IF i > Len(hookSeq) THEN 0
    ELSE (IF hookSeq[i].type = "command" /\ hookSeq[i].command # CONFIRM THEN 1 ELSE 0)
         + CommandHooks(hookSeq, i + 1)

RECURSIVE SpawnCount(_, _, _)
SpawnCount(rules, i, match_value) ==
    IF i > Len(rules) THEN 0
    ELSE (IF matches(rules[i], match_value) THEN CommandHooks(rules[i].hooks, 1) ELSE 0)
         + SpawnCount(rules, i + 1, match_value)

----------------------------------------------------------------------------
(* hooks/middleware.py *)

DENIED_BY_HOOK == "Tool call denied by hook."
DENIED_BY_USER == "Tool call denied by user."

ToolCallRequest(name, args, id) == [name |-> name, args |-> args, id |-> id]

\* ToolMessage(content=..., tool_call_id=...)
ToolMessage(content, id) == [kind |-> "ToolMessage", content |-> content, tool_call_id |-> id]
\* what the downstream handler returned
HandlerResult(value, id) == [kind |-> "result", content |-> value, tool_call_id |-> id]
\* nothing was returned: an exception left wrap_tool_call
NoReturn == [kind |-> "exception", content |-> "", tool_call_id |-> ""]

NotDispatched == [raised |-> FALSE, result |-> HookResult, spawned |-> <<>>]

\* pt_prompt("Allow? [y/N] ").strip().lower() for the answers of the model
strip_lower(answer) ==
    CASE answer = "Yes " -> "yes"
      [] answer = " Y" -> "y"
      [] OTHER -> answer

\* args.get("file_path", "") or args.get("path", "")
FileOf(args) ==
    IF "file_path" \in DOMAIN args /\ args.file_path # "" THEN args.file_path
    ELSE IF "path" \in DOMAIN args THEN args.path
    ELSE ""

ToolVariables(request) == [TOOL_NAME |-> request.name, FILE |-> FileOf(request.args)]

\* The record of one tool call: where wrap_tool_call stands (pc), the
\* steps taken so far in order, the outcome of each dispatch, the requests
\* the handler received, the handler's result and the value returned.
NewCall(agent, request, wrapped) ==
    [agent |-> agent, request |-> request, wrapped |-> wrapped, pc |-> "received",
     variables |-> EmptyDict, pre |-> NotDispatched, post |-> NotDispatched,
     prompted |-> FALSE, answer |-> "", handled |-> <<>>, result |-> "",
     returned |-> NoReturn, steps |-> <<>>]

\* wrap_tool_call up to the prompt: the PreToolUse dispatch and the deny
\* short-circuit.  envPre is what the hook processes of the dispatch do.
pre_dispatch(config, c, envPre) ==
    LET variables == ToolVariables(c.request)
        pre == execute_hooks(config, "PreToolUse", c.request.name, variables, envPre)
        base == [c EXCEPT !.variables = variables, !.pre = pre,
                          !.steps = Append(@, "PreToolUse")]
    IN  IF pre.raised THEN [base EXCEPT !.pc = "raised"]
        ELSE IF pre.result.permission = "deny"
        THEN [base EXCEPT !.pc = "returned",
                          !.returned = ToolMessage(DENIED_BY_HOOK, c.request.id)]
        ELSE IF pre.result.permission = "ask"
        THEN [base EXCEPT !.pc = "asking", !.prompted = TRUE,
                          !.steps = Append(@, "prompt")]
        ELSE [base EXCEPT !.pc = "calling"]

\* the prompt read as "anything but no": an empty answer lets the call through
ask_user_default_yes(c, answer) ==
    IF strip_lower(answer) \in {"n", "no"}
    THEN [c EXCEPT !.answer = answer, !.pc = "returned",
                   !.returned = ToolMessage(DENIED_BY_USER, c.request.id)]
    ELSE [c EXCEPT !.answer = answer, !.pc = "calling"]

\* the user answers the "Allow? [y/N]" prompt
ask_user(c, answer) ==
    IF strip_lower(answer) \notin {"y", "yes"}
    THEN [c EXCEPT !.answer = answer, !.pc = "returned",
                   !.returned = ToolMessage(DENIED_BY_USER, c.request.id)]
    ELSE [c EXCEPT !.answer = answer, !.pc = "calling"]

\* the input patch is merged into the arguments and the handler is called;
\* value is what the handler returns
call_handler(c, value) ==
    LET patch == c.pre.result.updated_input IN
    IF Truthy(patch) /\ patch.type # "object"
    THEN [c EXCEPT !.pc = "raised"]    \* {**args, **patch}: the patch is no mapping
    ELSE LET merged == IF Truthy(patch) THEN DictMerge(c.request.args, patch.members)
                       ELSE c.request.args
         IN  [c EXCEPT !.handled = Append(@, [c.request EXCEPT !.args = merged]),
                       !.result = value,
                       !.steps = Append(@, "handler"),
                       !.pc = "handled"]

\* the PostToolUse dispatch and the return of the handler's result
post_dispatch(config, c, envPost) ==
    LET post == execute_hooks(config, "PostToolUse", c.request.name, c.variables, envPost)
        base == [c EXCEPT !.post = post, !.steps = Append(@, "PostToolUse")]
    IN  IF post.raised THEN [base EXCEPT !.pc = "raised"]
        ELSE [base EXCEPT !.pc = "returned",
                          !.returned = HandlerResult(c.result, c.request.id)]

\* a tool call of an agent built without HooksMiddleware: the tool node
\* calls the handler itself and returns its result
call_unwrapped(c, value) ==
    [c EXCEPT !.handled = Append(@, c.request), !.result = value,
              !.steps = Append(@, "handler"), !.pc = "returned",
              !.returned = HandlerResult(value, c.request.id)]

----------------------------------------------------------------------------
(* agents/runner.py, __main__.py: the agents and their middleware *)

Agents == {"main", "sub", "command"}

\* create_main_agent lists HooksMiddleware(config); create_sub_agent and
\* _create_command_agent call create_agent without middleware
HasHooksMiddleware(agent) == agent = "main"

\* get_tools() for the main and the command agent, DEFAULT_SUB_TOOLS for a
\* sub-agent, as far as the tools of the model go
AgentTools(agent) == IF agent = "sub" THEN {Write} ELSE {Write, Bash}

----------------------------------------------------------------------------
(* hooks/parser.py *)

\* dict.get(key, default) on a JSON object of the model
Get(d, key, default) == IF key \in DOMAIN d THEN d[key] ELSE default

parse_hook_def(raw) ==
    HookDef(Get(raw, "type", "command"), Get(raw, "command", ""), Get(raw, "prompt", ""))

parse_hook_rule(raw) ==
    LET rawHooks == Get(raw, "hooks", <<>>)
    IN  HookRule(Get(raw, "matcher", Star),
                 [i \in 1..Len(rawHooks) |-> parse_hook_def(rawHooks[i])])

\* A JSON object as far as hooks go: `events` holds its keys that are event
\* names, each with a list of raw rules; `hooks` is its "hooks" key when
\* that is an object, itself with event keys and legacy "pre:T" entries.
NoHooksKey == [present |-> FALSE, events |-> EmptyDict, legacy |-> <<>>]
HooksKey(events, legacyMap) == [present |-> TRUE, events |-> events, legacy |-> legacyMap]
HooksData(events, hooksKey) == [events |-> events, hooks |-> hooksKey]

parse_hooks_config(data) ==
    LET src == IF data.hooks.present /\ DOMAIN data.hooks.events # {}
               THEN data.hooks.events ELSE data.events
    IN  [e \in HOOK_EVENTS |->
            IF e \in DOMAIN src
            THEN [i \in 1..Len(src[e]) |-> parse_hook_rule(src[e][i])]
            ELSE <<>>]

\* key.split(":", 1): the text before the first colon and the text after it
RECURSIVE ColonAt(_, _)
ColonAt(key, i) ==
    IF i > Len(key) THEN 0 ELSE IF key[i] = ":" THEN i ELSE ColonAt(key, i + 1)

\* re.escape: a backslash before every character of re's special set
EscapedChars ==
    {"(", ")", "[", "]", "{", "}", "?", "*", "+", "-", "|", "^", "$", "\\", ".",
     "&", "~", "#", " "}

RECURSIVE re_escape(_)
re_escape(text) ==
    IF text = <<>> THEN <<>>
    ELSE (IF Head(text) \in EscapedChars THEN <<"\\", Head(text)>> ELSE <<Head(text)>>)
         \o re_escape(Tail(text))

Pre == <<"p", "r", "e">>
Post == <<"p", "o", "s", "t">>

\* convert_legacy_hooks: legacy is the dict's items in insertion order
RECURSIVE convert_legacy_hooks(_)
convert_legacy_hooks(legacyMap) ==
    IF legacyMap = <<>> THEN EmptyHooksConfig
    ELSE LET key == legacyMap[Len(legacyMap)].key
             value == legacyMap[Len(legacyMap)].value
             cfg == convert_legacy_hooks(SubSeq(legacyMap, 1, Len(legacyMap) - 1))
             colon == ColonAt(key, 1)
             prefix == SubSeq(key, 1, colon - 1)
             tool_name == SubSeq(key, colon + 1, Len(key))
         IN  IF colon = 0 THEN cfg
             ELSE IF prefix = Pre
             THEN [cfg EXCEPT !["PreToolUse"] =
                      Append(@, HookRule(re_escape(tool_name),
                                         <<HookDef("command",
                                                   IF value = "confirm" THEN CONFIRM
                                                   ELSE value, "")>>))]
             ELSE IF prefix = Post
             THEN [cfg EXCEPT !["PostToolUse"] =
                      Append(@, HookRule(re_escape(tool_name),
                                         <<HookDef("command", value, "")>>))]
             ELSE cfg

----------------------------------------------------------------------------
(* core/config.py *)

DEFAULT_MODEL == "anthropic:claude-sonnet-4-5-20250929"

\* Config()
DefaultConfig ==
    [model |-> DEFAULT_MODEL, hooks |-> EmptyHooksConfig,
     enabled_plugins |-> EmptyDict, known_marketplaces |-> EmptyDict]

\* A settings file on disk: missing, text that is no JSON, or a JSON object
\* with an optional model (a sequence of at most one value), optional
\* enabledPlugins and extraKnownMarketplaces objects, and hooks.
AbsentFile ==
    [kind |-> "absent", model |-> <<>>, enabledPlugins |-> EmptyDict,
     extraKnownMarketplaces |-> EmptyDict, data |-> HooksData(EmptyDict, NoHooksKey)]
MalformedFile == [AbsentFile EXCEPT !.kind = "malformed"]
SettingsFile(model, plugins, marketplaces, data) ==
    [kind |-> "object", model |-> model, enabledPlugins |-> plugins,
     extraKnownMarketplaces |-> marketplaces, data |-> data]

\* _apply_settings(config, path): the config afterwards, or the
\* JSONDecodeError json.loads raised
apply_settings(config, file) ==
    IF file.kind = "absent" THEN [raised |-> FALSE, config |-> config]
    ELSE IF file.kind = "malformed" THEN [raised |-> TRUE, config |-> config]
    ELSE LET c1 == IF file.model # <<>> THEN [config EXCEPT !.model = file.model[1]]
                   ELSE config
             c2 == [c1 EXCEPT !.enabled_plugins = DictMerge(@, file.enabledPlugins),
                              !.known_marketplaces =
                                  DictMerge(@, file.extraKnownMarketplaces)]
             has_event_keys == DOMAIN file.data.events # {}
             has_legacy_hooks == file.data.hooks.present
             parsed ==
                IF has_event_keys THEN parse_hooks_config(file.data)
                ELSE IF has_legacy_hooks
                THEN IF DOMAIN file.data.hooks.events # {}
                     THEN parse_hooks_config(HooksData(file.data.hooks.events, NoHooksKey))
                     ELSE convert_legacy_hooks(file.data.hooks.legacy)
                ELSE EmptyHooksConfig
         IN  [raised |-> FALSE, config |-> [c2 EXCEPT !.hooks = merge(@, parsed)]]

\* an order that finishes one project directory before the next
LoadOrderByDirectory == <<"global", "langcode", "langcode.local", "claude", "claude.local">>

\* the order load_config applies the settings files in: the global file,
\* settings.json of each project directory, settings.local.json of each
LoadOrder == <<"global", "langcode", "claude", "langcode.local", "claude.local">>

RECURSIVE ApplyAll(_, _, _, _)
ApplyAll(st, files, order, i) ==
    IF i > Len(order) \/ st.raised THEN st
    ELSE ApplyAll(apply_settings(st.config, files[order[i]]), files, order, i + 1)

\* load_config(model): env_model is LANGCODE_MODEL, model the CLI argument,
\* each a sequence of at most one value
load_config(files, env_model, model) ==
    LET applied == ApplyAll([raised |-> FALSE, config |-> DefaultConfig], files, LoadOrder, 1)
        c1 == IF env_model # <<>> THEN [applied.config EXCEPT !.model = env_model[1]]
              ELSE applied.config
        c2 == IF model # <<>> THEN [c1 EXCEPT !.model = model[1]] ELSE c1
    IN  IF applied.raised THEN applied ELSE [raised |-> FALSE, config |-> c2]

\* run_stop_hooks / run_subagent_stop_hooks: the dispatch they make and the
\* bool they return
run_stop_hooks(config, env) ==
    LET out == execute_hooks(config, "Stop", Star, EmptyDict, env)
    IN  [out |-> out, value |-> out.result.decision # "block"]

run_subagent_stop_hooks(config, env) ==
    LET out == execute_hooks(config, "SubagentStop", Star, EmptyDict, env)
    IN  [out |-> out, value |-> out.result.decision # "block"]

----------------------------------------------------------------------------
(* plugins/loader.py, plugins/lifecycle.py                                 *)
(*                                                                         *)
(* Plugin names, marketplace names, settings keys and source strings are   *)
(* sequences of one-character strings: the code splits and joins them.     *)
(* A directory is a record of the files the code looks at.  The disk the   *)
(* plugin code works on is a record: the settings files (files), the       *)
(* directories below <global>/plugins/cache (cache), whether               *)
(* <global>/marketplaces exists (marketplaces_dir), the directories below  *)
(* it (marketplaces) and _marketplaces.json (index).                       *)

\* dict[key] = value, dict.pop(key, None)
Put(dict, key, value) == DictMerge(dict, [k \in {key} |-> value])
Pop(dict, key) == [k \in (DOMAIN dict) \ {key} |-> dict[k]]

\* name.split("@")[0]
RECURSIVE split_at_0(_)
split_at_0(name) ==
    IF name = <<>> \/ Head(name) = "@" THEN <<>>
    ELSE <<Head(name)>> \o split_at_0(Tail(name))

\* f"{name}@{marketplace}" if marketplace else name
key_full(name, marketplace) ==
    IF marketplace # <<>> THEN name \o <<"@">> \o marketplace ELSE name

\* .claude-plugin/plugin.json or marketplace.json: missing, text that is no
\* JSON, a JSON array, or a JSON object with its name and plugins members
JsonFile(kind, name, plugins) == [kind |-> kind, name |-> name, plugins |-> plugins]
MissingFile == JsonFile("missing", <<>>, <<>>)
InvalidFile == JsonFile("invalid", <<>>, <<>>)
ArrayFile == JsonFile("array", <<>>, <<>>)
Manifest(name) == JsonFile("object", name, <<>>)

\* a plugin directory: its name, plugin.json, .mcp.json ("missing",
\* "object" or "array"), _install_meta.json (at most one), the object in
\* hooks/hooks.json (at most one), and whether it lies in a
\* tempfile.TemporaryDirectory
PluginDir(basename, manifest, mcp_json) ==
    [basename |-> basename, manifest |-> manifest, mcp_json |-> mcp_json, meta |-> <<>>,
     hooks_json |-> <<>>, temporary |-> FALSE]

\* _parse_manifest(path): the manifest's name, <<>> for None, or the
\* AttributeError of data.get on a JSON array
parse_manifest(file) ==
    CASE file.kind \in {"missing", "invalid"} -> [raised |-> FALSE, manifest |-> <<>>]
      [] file.kind = "array" -> [raised |-> TRUE, manifest |-> <<>>]
      [] OTHER ->
            [raised |-> FALSE,
             manifest |-> IF file.name = <<>> THEN <<>> ELSE <<file.name>>]

\* _discover_components(plugin_root, manifest) raises: raw.get on the JSON
\* array of .mcp.json is outside what its try catches
discover_components_raises(dir) == dir.mcp_json = "array"

\* a Plugin; hooks_config is components.hooks_config, <<>> for the empty dict
NoPlugin ==
    [raised |-> FALSE, name |-> <<>>, error |-> TRUE, marketplace |-> <<>>,
     enabled |-> TRUE, hooks_config |-> <<>>]

\* load_plugin(plugin_root, name_override): at is the directory at
\* plugin_root, <<>> if there is none; basename is plugin_root.name;
\* name_override is <<>> for ""
load_plugin_as(at, basename, name_override) ==
    IF at = <<>>
    THEN [NoPlugin EXCEPT !.name = IF name_override # <<>> THEN name_override ELSE basename]
    ELSE LET parsed == parse_manifest(at[1].manifest)
             name == IF name_override # <<>> THEN name_override
                     ELSE IF parsed.manifest # <<>> THEN parsed.manifest[1]
                     ELSE basename
         IN  IF parsed.raised THEN [NoPlugin EXCEPT !.raised = TRUE]
             ELSE [NoPlugin EXCEPT !.name = name,
                                   !.error = discover_components_raises(at[1]),
                                   !.hooks_config =
                                       IF discover_components_raises(at[1]) THEN <<>>
                                       ELSE at[1].hooks_json]

\* load_plugin(plugin_root)
load_plugin(at, basename) == load_plugin_as(at, basename, <<>>)

\* Config.project_dirs[0], else Config.primary_project_dir
first_project_dir(disk) ==
    IF disk.project_dirs # <<>> THEN disk.project_dirs[1] ELSE "langcode"

\* _settings_path_for_scope(config, scope)
settings_path_for_scope(disk, scope) ==
    IF scope = "user" THEN "global"
    ELSE IF scope = "local"
    THEN IF first_project_dir(disk) = "langcode" THEN "langcode.local" ELSE "claude.local"
    ELSE first_project_dir(disk)

\* _read_settings(path): a missing or unreadable file reads as {}
read_settings(file) ==
    IF file.kind = "object" THEN file ELSE [AbsentFile EXCEPT !.kind = "object"]

\* _write_settings(path, data): mkdir(parents=True) makes the project
\* directory if there was none
write_settings(disk, path, data) ==
    [disk EXCEPT !.files = [@ EXCEPT ![path] = data],
                 !.project_dirs =
                    IF path # "global" /\ @ = <<>> THEN <<first_project_dir(disk)>> ELSE @]

\* _set_enabled_plugin(config, name, value, scope); value is <<>> for None
set_enabled_plugin(disk, name, value, scope) ==
    LET path == settings_path_for_scope(disk, scope)
        data == read_settings(disk.files[path])
        enabled == IF value = <<>> THEN Pop(data.enabledPlugins, name)
                   ELSE Put(data.enabledPlugins, name, value[1])
    IN  write_settings(disk, path, [data EXCEPT !.enabledPlugins = enabled])

\* _is_plugin_enabled(config, name, marketplace)
is_plugin_enabled(enabled_plugins, name, marketplace) ==
    IF key_full(name, marketplace) \in DOMAIN enabled_plugins
    THEN enabled_plugins[key_full(name, marketplace)]
    ELSE IF name \in DOMAIN enabled_plugins THEN enabled_plugins[name]
    ELSE TRUE

\* install_plugin_from_path(config, source_path, scope, marketplace): the
\* Plugin returned (or the exception) and the disk afterwards
install_plugin_from_path(disk, at, basename, scope, marketplace) ==
    LET plugin == load_plugin(at, basename)
        name == plugin.name
        dest == [at[1] EXCEPT !.basename = name,
                              !.temporary = FALSE,
                              !.meta = <<[source |-> [basename |-> basename,
                                                      temporary |-> at[1].temporary],
                                          marketplace |-> marketplace, scope |-> scope]>>]
        copied == [disk EXCEPT !.cache = Put(@, name, dest)]
        after == set_enabled_plugin(copied, key_full(name, marketplace), <<TRUE>>, scope)
    IN  IF plugin.raised \/ plugin.error THEN [plugin |-> plugin, disk |-> disk]
        ELSE [plugin |-> [load_plugin(<<dest>>, name) EXCEPT !.marketplace = marketplace],
              disk |-> after]

\* update_plugin(config, name): at_source is the directory at the source
\* path that _install_meta.json records, <<>> if there is none now; None
\* or what install_plugin_from_path returned, and the disk afterwards
update_plugin(disk, name, at_source) ==
    LET bare_name == split_at_0(name)
        meta == disk.cache[bare_name].meta[1]
        installed == install_plugin_from_path(disk, at_source, meta.source.basename,
                                              meta.scope, meta.marketplace)
    IN  IF bare_name \notin DOMAIN disk.cache \/ disk.cache[bare_name].meta = <<>>
        THEN [none |-> TRUE, plugin |-> NoPlugin, disk |-> disk]
        ELSE IF at_source = <<>> THEN [none |-> TRUE, plugin |-> NoPlugin, disk |-> disk]
        ELSE [none |-> FALSE, plugin |-> installed.plugin, disk |-> installed.disk]

\* uninstall_plugin(config, name, scope): returns True
uninstall_plugin(disk, name, scope) ==
    set_enabled_plugin([disk EXCEPT !.cache = Pop(@, split_at_0(name))], name, <<>>, scope)

\* enable_plugin, disable_plugin: return True
enable_plugin(disk, name, scope) == set_enabled_plugin(disk, name, <<TRUE>>, scope)
disable_plugin(disk, name, scope) == set_enabled_plugin(disk, name, <<FALSE>>, scope)

\* list_plugins(config): the Plugin of each directory of the cache
list_plugins(disk, enabled_plugins) ==
    [d \in DOMAIN disk.cache |->
        LET p == load_plugin(<<disk.cache[d]>>, d)
            marketplace == IF disk.cache[d].meta # <<>>
                           THEN disk.cache[d].meta[1].marketplace ELSE <<>>
        IN  [p EXCEPT !.marketplace = marketplace,
                      !.enabled = is_plugin_enabled(enabled_plugins, p.name, marketplace)]]

\* a JSON value: a number, a string (a sequence of pieces, one of which may
\* be the placeholder), a list or a dict
JNum(n) == [kind |-> "number", n |-> n, text |-> <<>>, items |-> <<>>, members |-> EmptyDict]
JStr(text) ==
    [kind |-> "str", n |-> 0, text |-> text, items |-> <<>>, members |-> EmptyDict]
JList(items) ==
    [kind |-> "list", n |-> 0, text |-> <<>>, items |-> items, members |-> EmptyDict]
JDict(members) ==
    [kind |-> "dict", n |-> 0, text |-> <<>>, items |-> <<>>, members |-> members]

\* expand_plugin_root(value, plugin_root)
RECURSIVE expand_plugin_root(_, _)
expand_plugin_root(value, plugin_root) ==
    CASE value.kind = "str" ->
            JStr([i \in 1..Len(value.text) |->
                    IF value.text[i] = "${CLAUDE_PLUGIN_ROOT}" THEN plugin_root
                    ELSE value.text[i]])
      [] value.kind = "dict" ->
            JDict([k \in DOMAIN value.members |->
                    expand_plugin_root(value.members[k], plugin_root)])
      [] value.kind = "list" ->
            JList([i \in 1..Len(value.items) |->
                    expand_plugin_root(value.items[i], plugin_root)])
      [] OTHER -> value

\* _deep_merge(base, override) of two dicts
RECURSIVE deep_merge(_, _)
deep_merge(base, override) ==
    [k \in (DOMAIN base) \cup (DOMAIN override) |->
        IF k \notin DOMAIN override THEN base[k]
        ELSE IF k \in DOMAIN base /\ base[k].kind = "dict" /\ override[k].kind = "dict"
        THEN JDict(deep_merge(base[k].members, override[k].members))
        ELSE IF k \in DOMAIN base /\ base[k].kind = "list" /\ override[k].kind = "list"
        THEN JList(base[k].items \o override[k].items)
        ELSE override[k]]

\* what a manifest declares for hooks or mcpServers: nothing, an inline
\* object, or the path of a file (file is its decoded text, <<>> if the
\* file is missing or no JSON)
NotDeclared == [kind |-> "absent", inline |-> EmptyDict, file |-> <<>>]
Inline(object) == [kind |-> "inline", inline |-> object, file |-> <<>>]
ByPath(file) == [kind |-> "path", inline |-> EmptyDict, file |-> file]

\* _discover_components, the hooks: hooks_json is the decoded
\* hooks/hooks.json (<<>> if it is missing or no JSON)
discover_hooks(hooks_json, manifest_hooks, root_str) ==
    LET hooks_data == IF hooks_json # <<>> THEN hooks_json[1] ELSE EmptyDict
        merged == CASE manifest_hooks.kind = "inline" ->
                          deep_merge(hooks_data, manifest_hooks.inline)
                    [] manifest_hooks.kind = "path" /\ manifest_hooks.file # <<>> ->
                          deep_merge(hooks_data, manifest_hooks.file[1])
                    [] OTHER -> hooks_data
    IN  IF DOMAIN merged # {} THEN expand_plugin_root(JDict(merged), root_str).members
        ELSE EmptyDict

\* raw.get("mcpServers", raw.get("servers", {}))
servers_of(raw) == Get(raw, "mcpServers", Get(raw, "servers", JDict(EmptyDict))).members

\* _discover_components, the tool servers: mcp_json is the decoded
\* .mcp.json (<<>> if it is missing or no JSON)
discover_mcp_servers(mcp_json, manifest_mcp_servers, root_str) ==
    LET mcp_data == IF mcp_json # <<>> THEN servers_of(mcp_json[1]) ELSE EmptyDict
        updated == CASE manifest_mcp_servers.kind = "inline" ->
                           DictMerge(mcp_data, manifest_mcp_servers.inline)
                     [] manifest_mcp_servers.kind = "path"
                            /\ manifest_mcp_servers.file # <<>> ->
                           DictMerge(mcp_data, servers_of(manifest_mcp_servers.file[1]))
                     [] OTHER -> mcp_data
    IN  IF DOMAIN updated # {} THEN expand_plugin_root(JDict(updated), root_str).members
        ELSE EmptyDict

\* the characters of the model's file names in code point order
Alphabet ==
    <<".", "/", "@", "a", "b", "c", "d", "e", "f", "g", "h", "i", "j", "k", "l", "m",
      "n", "o", "p", "q", "r", "s", "t", "u", "v", "w", "x", "y", "z">>

ord(c) == CHOOSE i \in 1..Len(Alphabet) : Alphabet[i] = c

\* s < t for two str
RECURSIVE str_lt(_, _)
str_lt(s, t) ==
    IF t = <<>> THEN FALSE
    ELSE IF s = <<>> THEN TRUE
    ELSE IF Head(s) # Head(t) THEN ord(Head(s)) < ord(Head(t))
    ELSE str_lt(Tail(s), Tail(t))

\* sorted(names)
RECURSIVE sorted(_)
sorted(names) ==
    IF names = {} THEN <<>>
    ELSE LET first == CHOOSE n \in names : \A m \in names \ {n} : str_lt(n, m)
         IN  <<first>> \o sorted(names \ {first})

NoneLoaded == [raised |-> FALSE, plugins |-> <<>>, loaded_names |-> {}]

\* load_enabled_plugins, the loop over extra_dirs: each is a directory path,
\* at the directory there (<<>> if none) and basename its last part
RECURSIVE load_extra_dirs(_, _)
load_extra_dirs(extra_dirs, acc) ==
    IF extra_dirs = <<>> \/ acc.raised THEN acc
    ELSE LET p == load_plugin(Head(extra_dirs).at, Head(extra_dirs).basename)
         IN  load_extra_dirs(Tail(extra_dirs),
                 IF p.raised THEN [acc EXCEPT !.raised = TRUE]
                 ELSE IF p.error THEN acc
                 ELSE [acc EXCEPT !.plugins = Append(@, p),
                                  !.loaded_names = @ \cup {p.name}])

\* load_enabled_plugins, the loop over sorted(cache_dir.iterdir())
RECURSIVE load_cache_dirs(_, _, _, _)
load_cache_dirs(disk, enabled_plugins, dirs, acc) ==
    IF dirs = <<>> \/ acc.raised THEN acc
    ELSE LET d == disk.cache[Head(dirs)]
             p == load_plugin(<<d>>, Head(dirs))
             marketplace == IF d.meta # <<>> THEN d.meta[1].marketplace ELSE <<>>
         IN  load_cache_dirs(disk, enabled_plugins, Tail(dirs),
                 IF p.raised THEN [acc EXCEPT !.raised = TRUE]
                 ELSE IF p.name \in acc.loaded_names THEN acc
                 ELSE IF ~is_plugin_enabled(enabled_plugins, p.name, marketplace) THEN acc
                 ELSE IF p.error THEN acc
                 ELSE [acc EXCEPT !.plugins = Append(@, [p EXCEPT !.marketplace = marketplace]),
                                  !.loaded_names = @ \cup {p.name}])

\* load_enabled_plugins(config, extra_dirs)
load_enabled_plugins(disk, enabled_plugins, extra_dirs) ==
    load_cache_dirs(disk, enabled_plugins, sorted(DOMAIN disk.cache),
                    load_extra_dirs(extra_dirs, NoneLoaded))

\* __main__: the hooks of every loaded plugin merged into config.hooks
RECURSIVE merge_plugin_hooks(_, _)
merge_plugin_hooks(config_hooks, loaded_plugins) ==
    IF loaded_plugins = <<>> THEN config_hooks
    ELSE merge_plugin_hooks(
             IF Head(loaded_plugins).hooks_config # <<>>
             THEN merge(config_hooks, parse_hooks_config(Head(loaded_plugins).hooks_config[1]))
             ELSE config_hooks,
             Tail(loaded_plugins))

----------------------------------------------------------------------------
(* plugins/marketplace.py                                                  *)

\* str.startswith, str.endswith
startswith(s, prefix) == Len(s) >= Len(prefix) /\ SubSeq(s, 1, Len(prefix)) = prefix
endswith(s, suffix) ==
    Len(s) >= Len(suffix) /\ SubSeq(s, Len(s) - Len(suffix) + 1, Len(s)) = suffix

\* source.lstrip("./")
RECURSIVE lstrip_dot_slash(_)
lstrip_dot_slash(s) ==
    IF s # <<>> /\ Head(s) \in {".", "/"} THEN lstrip_dot_slash(Tail(s)) ELSE s

\* source.split("/")
RECURSIVE split_slash(_)
split_slash(s) ==
    IF \A i \in 1..Len(s) : s[i] # "/" THEN <<s>>
    ELSE LET i == CHOOSE j \in 1..Len(s) : s[j] = "/" /\ \A k \in 1..(j - 1) : s[k] # "/"
         IN  <<SubSeq(s, 1, i - 1)>> \o split_slash(SubSeq(s, i + 1, Len(s)))

\* _is_github_ref(source): owner/repo (the sources of the model hold no
\* blanks for strip() to remove)
is_github_ref(source) ==
    LET parts == split_slash(source)
    IN  /\ Len(parts) = 2
        /\ \A i \in 1..Len(parts) : parts[i] # <<>> /\ Head(parts[i]) # "-"
        /\ ~startswith(source, <<".">>)
        /\ ~startswith(source, <<"/">>)
        /\ \A i \in 1..Len(source) : source[i] # ":"

\* _is_git_url(source)
is_git_url(source) ==
    endswith(source, <<".", "g", "i", "t">>) \/ startswith(source, <<"g", "i", "t", "@">>)

\* Path.parent of a path that holds a "/"
RECURSIVE parent(_)
parent(path) ==
    IF path[Len(path)] = "/" THEN SubSeq(path, 1, Len(path) - 1)
    ELSE parent(SubSeq(path, 1, Len(path) - 1))

\* source.rsplit("#", 1) of a source that holds a "#"
rsplit_hash(source) ==
    LET i == CHOOSE j \in 1..Len(source) :
                 source[j] = "#" /\ \A k \in (j + 1)..Len(source) : source[k] # "#"
    IN  <<SubSeq(source, 1, i - 1), SubSeq(source, i + 1, Len(source))>>

HasHash(source) == \E i \in 1..Len(source) : source[i] = "#"
GitHubCom ==
    <<"h", "t", "t", "p", "s", ":", "/", "/", "g", "i", "t", "h", "u", "b", ".", "c", "o",
      "m", "/">>

\* _clone_source(source, dest), the command it builds: git clone --depth
\* <depth> [--branch <branch>] <url> dest; <<>> when it builds none
clone_command(source) ==
    LET parts == IF HasHash(source) THEN rsplit_hash(source) ELSE <<source, <<>>>>
    IN  IF is_github_ref(source)
        THEN <<[depth |-> 1, branch |-> parts[2],
                url |-> GitHubCom \o parts[1] \o <<".", "g", "i", "t">>]>>
        ELSE IF is_git_url(source)
        THEN <<[depth |-> 1, branch |-> parts[2], url |-> parts[1]]>>
        ELSE <<>>

\* _clone_source(source, dest): cloned is what git clone put at dest, <<>>
\* if it failed, timed out or is not installed
clone_source(source, cloned) ==
    IF clone_command(source) # <<>> THEN cloned # <<>> ELSE FALSE

\* f"{repo}#{ref}" if ref else repo
git_source_of(repo, ref) == IF ref # <<>> THEN repo \o <<"#">> \o ref ELSE repo

\* the source member of a plugin entry: a string, or an object with its
\* source, repo, url and ref members
StrSource(text) ==
    [isdict |-> FALSE, text |-> text, source |-> "", repo |-> <<>>, url |-> <<>>,
     ref |-> <<>>]
DictSource(source, repo, url) ==
    [isdict |-> TRUE, text |-> <<>>, source |-> source, repo |-> repo, url |-> url,
     ref |-> <<>>]
PluginEntry(name, source) == [name |-> name, source |-> source]

\* a marketplace directory: its marketplace.json and the plugin
\* directories below it, by relative path
MarketDir(descriptor, plugins) == [descriptor |-> descriptor, plugins |-> plugins]
EmptyDir == MarketDir(MissingFile, EmptyDict)

\* _find_marketplace_json(root): the descriptor of the directory, a missing
\* file for None
find_marketplace_json(root) == root.descriptor

NoMarketplace == [raised |-> FALSE, marketplace |-> <<>>]

\* _parse_marketplace_json(path): the Marketplace, <<>> for None, or the
\* AttributeError of data.get on a JSON array
parse_marketplace_json(file) ==
    CASE file.kind \in {"missing", "invalid"} -> NoMarketplace
      [] file.kind = "array" -> [NoMarketplace EXCEPT !.raised = TRUE]
      [] file.name = <<>> -> NoMarketplace
      [] OTHER ->
            [raised |-> FALSE,
             marketplace |->
                <<[name |-> file.name,
                   plugins |-> SelectSeq(file.plugins, LAMBDA e : e.name # <<>>)]>>]

\* _load_marketplace_meta(config).get("marketplaces", {})
load_marketplace_meta(disk) == IF disk.index.exists THEN disk.index.marketplaces ELSE EmptyDict

\* _register_marketplace(config, marketplace)
register_marketplace(disk, name, source_type, source_ref) ==
    [disk EXCEPT !.index =
        [exists |-> TRUE,
         marketplaces |->
            Put(load_marketplace_meta(disk), name,
                [source_type |-> source_type, source_ref |-> source_ref])]]

\* what Path(source).resolve() is: nothing, a directory, or a file (whose
\* text is the descriptor of dir) that may be called marketplace.json
Nothing == [kind |-> "none", is_marketplace_json |-> FALSE, dir |-> EmptyDir]
LocalDir(dir) == [kind |-> "dir", is_marketplace_json |-> FALSE, dir |-> dir]
LocalFile(is_marketplace_json, text) ==
    [kind |-> "file", is_marketplace_json |-> is_marketplace_json,
     dir |-> MarketDir(text, EmptyDict)]

\* the copy of a marketplace into the cache and its registration, common to
\* the three branches of add_marketplace: copied is the directory that
\* replaces cache_dir / name, <<>> when only the descriptor is copied into
\* the directory there
cache_and_register(disk, descriptor, copied, source_type, source_ref) ==
    LET parsed == parse_marketplace_json(descriptor)
        name == parsed.marketplace[1].name
        dest == IF copied # <<>> THEN copied[1]
                ELSE [Get(disk.marketplaces, name, EmptyDir) EXCEPT !.descriptor = descriptor]
    IN  IF parsed.raised \/ parsed.marketplace = <<>>
        THEN [raised |-> parsed.raised, marketplace |-> <<>>, disk |-> disk]
        ELSE [raised |-> FALSE, marketplace |-> <<name>>,
              disk |-> register_marketplace(
                          [disk EXCEPT !.marketplaces = Put(@, name, dest)],
                          name, source_type, source_ref)]

\* add_marketplace(config, source): the name of the Marketplace returned
\* (<<>> for None), or the exception, and the disk afterwards
add_marketplace(disk, source, at, cloned) ==
    LET made == [disk EXCEPT !.marketplaces_dir = TRUE]
    IN  IF at.kind = "dir"
        THEN cache_and_register(made, find_marketplace_json(at.dir), <<at.dir>>, "local",
                                source)
        ELSE IF at.kind = "file" /\ at.is_marketplace_json
        THEN cache_and_register(made, at.dir.descriptor, <<>>, "local",
                                parent(source))
        ELSE IF is_github_ref(source) \/ is_git_url(source)
        THEN IF ~clone_source(source, cloned)
             THEN [raised |-> FALSE, marketplace |-> <<>>, disk |-> made]
             ELSE cache_and_register(made, find_marketplace_json(cloned[1]), cloned,
                                     IF is_github_ref(source) THEN "github" ELSE "git",
                                     source)
        ELSE [raised |-> FALSE, marketplace |-> <<>>, disk |-> made]

\* what install_from_marketplace returns besides a Plugin
ReturnedNone(disk) == [none |-> TRUE, plugin |-> NoPlugin, disk |-> disk]
ReturnedPlugin(installed) == [none |-> FALSE, plugin |-> installed.plugin, disk |-> installed.disk]

\* the clone of a plugin source into a temporary directory "plugin" and its
\* installation from there
clone_and_install(disk, git_source, cloned, scope, marketplace_name) ==
    IF ~clone_source(git_source, cloned) THEN ReturnedNone(disk)
    ELSE ReturnedPlugin(install_plugin_from_path(
                            disk, <<[cloned[1] EXCEPT !.temporary = TRUE]>>,
                            <<"p", "l", "u", "g", "i", "n">>, scope, marketplace_name))

\* install_from_marketplace(config, plugin_name, marketplace_name, scope):
\* None, the Plugin install_plugin_from_path returned, or the exception; and
\* the disk afterwards
install_from_marketplace(disk, plugin_name, marketplace_name, scope, cloned) ==
    LET found == marketplace_name \in DOMAIN disk.marketplaces
        market_dir == disk.marketplaces[marketplace_name]
        parsed == IF found THEN parse_marketplace_json(find_marketplace_json(market_dir))
                  ELSE NoMarketplace
        entries == SelectSeq(parsed.marketplace[1].plugins, LAMBDA p : p.name = plugin_name)
        source == entries[1].source
        relative == lstrip_dot_slash(source.text)
    IN  IF parsed.raised
        THEN [none |-> FALSE, plugin |-> [NoPlugin EXCEPT !.raised = TRUE], disk |-> disk]
        ELSE IF parsed.marketplace = <<>> THEN ReturnedNone(disk)
        ELSE IF entries = <<>> THEN ReturnedNone(disk)
        ELSE IF ~source.isdict /\ startswith(source.text, <<".", "/">>)
        THEN IF relative \notin DOMAIN market_dir.plugins THEN ReturnedNone(disk)
             ELSE ReturnedPlugin(install_plugin_from_path(
                               disk, <<market_dir.plugins[relative]>>,
                               market_dir.plugins[relative].basename, scope,
                               marketplace_name))
        ELSE IF source.isdict /\ source.source = "github"
        THEN IF source.repo = <<>> THEN ReturnedNone(disk)
             ELSE clone_and_install(disk, git_source_of(source.repo, source.ref), cloned, scope,
                                    marketplace_name)
        ELSE IF source.isdict /\ source.source \in {"url", "git"}
        THEN IF source.url = <<>> THEN ReturnedNone(disk)
             ELSE clone_and_install(disk, git_source_of(source.url, source.ref), cloned, scope,
                                    marketplace_name)
        ELSE IF ~source.isdict /\ (is_github_ref(source.text) \/ is_git_url(source.text))
        THEN clone_and_install(disk, source.text, cloned, scope, marketplace_name)
        ELSE ReturnedNone(disk)

----------------------------------------------------------------------------
(* The inputs the model draws *)

CommandHook == HookDef("command", "check $TOOL_NAME $FILE", "")
ConfirmHook == HookDef("command", CONFIRM, "")
PromptHook == HookDef("prompt", "", "Be careful")

\* what a hook process may do, for the dispatches of a tool call
ToolProcs ==
    {Completed(0, OutText, ""), Completed(0, OutDeny, ""), Completed(0, OutPatch, ""),
     Completed(0, OutPatchText, ""), Completed(0, OutBlock, ""),
     Completed(0, OutHsoNumber, ""), TimeoutExpired}

\* what a hook process may do, for a direct dispatch
EngineProcs ==
    {Completed(0, OutText, ""), Completed(0, OutAllow, ""), Completed(0, OutSysMsg, ""),
     Completed(0, OutBlock, ""), Completed(0, OutHsoNumber, ""), Completed(2, OutEmpty, "err\n")}

\* everything a hook process may do: any stdout of the table with exit code
\* 0, a failing exit code with stderr, running out of time, not starting
OutcomeProcs ==
    {Completed(0, out, "") :
        out \in {OutEmpty, OutText, OutBlank, OutBadJson, OutDeny, OutAllow, OutAsk,
                 OutMaybe, OutPatch, OutPatchText, OutHsoNumber, OutBlock, OutApprove,
                 OutSysMsg, OutLater}}
    \cup {Completed(1, OutText, "err\n"), Completed(2, OutEmpty, "err\n"),
          TimeoutExpired, SpawnFailure}

\* registries of one rule for every value, holding up to MaxHooks hooks
OutcomeConfigs ==
    {HooksConfigWith(e, <<HookRule(Star, hookSeq)>>) :
        e \in {"PreToolUse", "Stop"},
        hookSeq \in SeqsUpTo({CommandHook, ConfirmHook, PromptHook}, MaxHooks)}

\* what a hook process may do at the end of a turn
StopProcs ==
    {Completed(0, OutText, ""), Completed(0, OutBlock, ""), Completed(0, OutApprove, ""),
     Completed(0, OutLater, ""), Completed(0, OutHsoNumber, ""), TimeoutExpired}

StopEvents == {"Stop", "SubagentStop"}

\* every registry of at most n rules, each built as config loading builds
\* it: by merging one-rule registries into it
RECURSIVE ConfigsUpTo(_, _, _)
ConfigsUpTo(events, rules, n) ==
    IF n = 0 THEN {EmptyHooksConfig}
    ELSE LET smaller == ConfigsUpTo(events, rules, n - 1)
         IN  smaller \cup {merge(c, HooksConfigWith(e, <<r>>)) :
                              c \in smaller, e \in events, r \in rules}

ToolEvents == {"PreToolUse", "PostToolUse"}

AgentRules ==
    {HookRule(m, <<h>>) : m \in {Star, Write}, h \in {CommandHook, ConfirmHook, PromptHook}}

AgentConfigs == ConfigsUpTo(ToolEvents, AgentRules, MaxRules)

EngineRules ==
    {HookRule(Star, <<CommandHook>>), HookRule(Write, <<ConfirmHook>>),
     HookRule(Star, <<PromptHook, CommandHook>>)}

EngineConfigs == ConfigsUpTo(HOOK_EVENTS, EngineRules, MaxEngineRules)

\* the settings files of the model
RawCommandRule == [matcher |-> Write, hooks |-> <<[type |-> "command", command |-> "fmt $FILE"]>>]
RawPromptRule == [hooks |-> <<[type |-> "prompt", prompt |-> "Be careful"]>>]
PreWrite == Pre \o <<":">> \o Write
PostWrite == Post \o <<":">> \o Write

FileContents ==
    {AbsentFile, MalformedFile,
     SettingsFile(<<"m1">>, EmptyDict, EmptyDict, HooksData(EmptyDict, NoHooksKey)),
     SettingsFile(<<"m2">>, [A |-> TRUE], EmptyDict,
                  HooksData([Stop |-> <<RawCommandRule>>], NoHooksKey)),
     SettingsFile(<<>>, [A |-> FALSE], [M |-> "repo"],
                  HooksData(EmptyDict, HooksKey([Stop |-> <<RawPromptRule>>], <<>>))),
     SettingsFile(<<>>, EmptyDict, EmptyDict,
                  HooksData(EmptyDict,
                            HooksKey(EmptyDict, <<[key |-> PreWrite, value |-> "confirm"],
                                                  [key |-> PostWrite, value |-> "fmt $FILE"]>>)))}

Slots == {LoadOrder[i] : i \in 1..Len(LoadOrder)}

\* settings objects in one dialect or in two at once: rules under top-level
\* event keys, and a hooks key that holds nested event keys or legacy entries
TopLevelEvents ==
    {EmptyDict, [Stop |-> <<RawCommandRule>>], [PreToolUse |-> <<RawCommandRule>>],
     [PreToolUse |-> <<RawCommandRule>>, Stop |-> <<RawPromptRule>>]}
HooksKeys ==
    {NoHooksKey, HooksKey(EmptyDict, <<>>),
     HooksKey([Stop |-> <<RawPromptRule>>], <<>>),
     HooksKey([PostToolUse |-> <<RawCommandRule>>], <<>>),
     HooksKey([PreToolUse |-> <<RawPromptRule>>, Stop |-> <<RawPromptRule>>], <<>>),
     HooksKey(EmptyDict, <<[key |-> PreWrite, value |-> "confirm"]>>),
     HooksKey(EmptyDict, <<[key |-> PreWrite, value |-> "confirm"],
                           [key |-> PostWrite, value |-> "fmt $FILE"]>>)}
DialectFiles ==
    {SettingsFile(<<>>, EmptyDict, EmptyDict, HooksData(events, hooksKey)) :
        events \in TopLevelEvents, hooksKey \in HooksKeys}
EnvModels == {<<>>, <<"env-model">>}
CliModels == {<<>>, <<"cli-model">>}

\* tool names, some holding regex metacharacters
ToolNameChars == {"a", "b", ".", "*"}
ToolNames == SeqsUpTo(ToolNameChars, MaxToolNameLen) \ {<<>>}
LegacyPrefixes == {Pre, Post}

StopRules ==
    {HookRule(Star, <<CommandHook>>), HookRule(Write, <<CommandHook>>),
     HookRule(Star, <<PromptHook>>)}

StopConfigs == ConfigsUpTo(StopEvents, StopRules, MaxStopRules)

MergeRules == {HookRule(Star, <<PromptHook>>), HookRule(Write, <<ConfirmHook>>)}

ScopeConfigs ==
    {HooksConfigWith(e, rs) : e \in HOOK_EVENTS, rs \in SeqsUpTo(MergeRules, MaxScopeRules)}

PatternChars == {"a", "A", ".", "*", "[", "\\", "|"}
ValueChars == {"a", "A", "[", "*"}

Matchers == {p \in SeqsUpTo(PatternChars, MaxMatcherLen) : InFragment(p)}
MatchValues == SeqsUpTo(ValueChars, MaxValueLen)

ToolArgs == {EmptyDict, [file_path |-> "/a", content |-> "c"], [path |-> "/a"]}
ToolCallIds == {"id1", "id2"}
Requests(agent) ==
    {ToolCallRequest(t, a, i) : t \in AgentTools(agent), a \in ToolArgs, i \in ToolCallIds}
Answers == {"y", "yes", "Yes ", " Y", "n", ""}
HandlerValues == {"r1", "r2"}
MatchValuesOfDispatch == {Write, Bash, Star}

\* plugin and marketplace names; a manifest may give any name
NameA == <<"a">>
NameAAtM == <<"a", "@", "m">>
NameB == <<"b">>
NameM == <<"m">>
NameN == <<"n">>
Scopes == {"user", "project", "local"}

\* the plugin directories a user installs from: two that load, one whose
\* plugin.json is a JSON array, one whose .mcp.json is a JSON array
PluginA == PluginDir(NameA, Manifest(NameA), "missing")
PluginAAtM == PluginDir(NameA, Manifest(NameAAtM), "object")
PluginArray == PluginDir(NameA, ArrayFile, "missing")
PluginBroken == PluginDir(NameB, Manifest(NameB), "array")
LoadablePlugins == {<<PluginA>>, <<PluginAAtM>>}
PluginPaths == LoadablePlugins \cup {<<>>, <<PluginArray>>, <<PluginBroken>>}
PluginKeys == {NameA, NameAAtM}

\* the directories load_plugin is pointed at: none, or one with each kind
\* of plugin.json and of .mcp.json
ManifestFiles ==
    {MissingFile, InvalidFile, ArrayFile, Manifest(<<>>), Manifest(NameA), Manifest(NameAAtM)}
LoadRoots ==
    {<<>>} \cup {<<PluginDir(NameB, f, m)>> : f \in ManifestFiles,
                                             m \in {"missing", "object", "array"}}
NameOverrides == {<<>>, NameN}

\* source strings
SlashD == <<"/", "d">>
SlashDMarketplaceJson == SlashD \o <<"/", "m", ".", "j", "s", "o", "n">>
SlashDOtherJson == SlashD \o <<"/", "o", ".", "j", "s", "o", "n">>
OwnerRepo == <<"o", "/", "r">>
GitUrl == <<"u", ".", "g", "i", "t">>
Unknown == <<"x">>

\* the plugin entries of a marketplace.json: by relative path (present,
\* missing, failing to load), by github object (with and without repo), by
\* url object (with and without url), by string, and of no known shape
Entries ==
    <<PluginEntry(<<"a">>, StrSource(<<".", "/", "a">>)),
      PluginEntry(<<"b">>, StrSource(<<".", "/", "b">>)),
      PluginEntry(<<"c">>, StrSource(<<".", "/", "c">>)),
      PluginEntry(<<"d">>, DictSource("github", OwnerRepo, <<>>)),
      PluginEntry(<<"e">>, DictSource("github", <<>>, <<>>)),
      PluginEntry(<<"f">>, DictSource("url", <<>>, GitUrl)),
      PluginEntry(<<"g">>, DictSource("url", <<>>, <<>>)),
      PluginEntry(<<"h">>, StrSource(OwnerRepo)),
      PluginEntry(<<"i">>, StrSource(Unknown)),
      PluginEntry(<<"j">>, DictSource("npm", <<>>, <<>>))>>
EntryNames == {Entries[i].name : i \in 1..Len(Entries)} \cup {<<"k">>}

Descriptor(name) == JsonFile("object", name, Entries)
PluginsOfMarket == [p \in {NameA, NameB} |-> IF p = NameA THEN PluginA ELSE PluginBroken]
GoodMarket == MarketDir(Descriptor(NameM), PluginsOfMarket)
Descriptors == {MissingFile, InvalidFile, ArrayFile, Descriptor(<<>>), Descriptor(NameM)}
MarketDirs == {MarketDir(d, PluginsOfMarket) : d \in Descriptors}

\* what add_marketplace can be pointed at: the source, what is at that path
\* and what git clone would fetch
MarketSources ==
    {[source |-> SlashD, at |-> LocalDir(dir), cloned |-> <<>>] : dir \in MarketDirs}
    \cup {[source |-> SlashDMarketplaceJson, at |-> LocalFile(TRUE, d), cloned |-> <<>>] :
            d \in Descriptors \ {MissingFile}}
    \cup {[source |-> SlashDOtherJson, at |-> LocalFile(FALSE, Descriptor(NameM)),
           cloned |-> <<>>]}
    \cup {[source |-> OwnerRepo, at |-> Nothing, cloned |-> c] :
            c \in {<<>>} \cup {<<dir>> : dir \in MarketDirs}}
    \cup {[source |-> GitUrl, at |-> Nothing, cloned |-> c] : c \in {<<>>, <<GoodMarket>>}}
    \cup {[source |-> Unknown, at |-> Nothing, cloned |-> <<>>]}

\* what git clone of a plugin source would fetch
PluginClones == {<<>>, <<PluginA>>, <<PluginBroken>>}
MarketNames == {NameM, NameN}
MarketScopes == {"user", "project"}

\* the plugins asked of a marketplace, with what git clone would fetch for
\* those whose entry names a remote source
RemoteEntryNames == {<<"d">>, <<"f">>, <<"h">>}
MarketInstalls ==
    {[plugin_name |-> p, cloned |-> c] : p \in RemoteEntryNames, c \in PluginClones}
    \cup {[plugin_name |-> p, cloned |-> <<>>] : p \in EntryNames \ RemoteEntryNames}

\* the settings files a session starts with
PluginSettings(plugins) ==
    SettingsFile(<<>>, plugins, EmptyDict, HooksData(EmptyDict, NoHooksKey))
ADisabled == [k \in {NameA} |-> FALSE]
UserSettings == {AbsentFile, PluginSettings(EmptyDict), PluginSettings(ADisabled)}
ProjectSettings == {AbsentFile, PluginSettings(ADisabled)}

\* remote sources and refs: owner/repo, URLs ending in .git and URLs
\* starting with git@, and a tag and a branch
HttpsUrl == <<"h", ":", "/", "/", "h", "/", "r", ".", "g", "i", "t">>
SshUrl == <<"g", "i", "t", "@", "h", ":", "r">>
SshGitUrl == SshUrl \o <<".", "g", "i", "t">>
Refs == {<<>>, <<"v">>, <<"v", "1">>, <<"f", "/", "x">>}
GitHubRefs == {OwnerRepo, <<"a", "/", "b">>}
GitUrls == {GitUrl, HttpsUrl, SshUrl, SshGitUrl}
CloneRequests ==
    {[via |-> via, base |-> base, ref |-> ref, fetched |-> fetched] :
        via \in {"add_marketplace", "string"}, base \in GitHubRefs \cup GitUrls,
        ref \in Refs, fetched \in BOOLEAN}
    \cup {[via |-> "github", base |-> base, ref |-> ref, fetched |-> fetched] :
            base \in GitHubRefs, ref \in Refs, fetched \in BOOLEAN}
    \cup {[via |-> via, base |-> base, ref |-> ref, fetched |-> fetched] :
            via \in {"url", "git"}, base \in GitUrls, ref \in Refs, fetched \in BOOLEAN}

\* the plugin entry of a request
EntryOf(request) ==
    PluginEntry(NameA,
        CASE request.via = "github" ->
                [DictSource("github", request.base, <<>>) EXCEPT !.ref = request.ref]
          [] request.via \in {"url", "git"} ->
                [DictSource(request.via, <<>>, request.base) EXCEPT !.ref = request.ref]
          [] OTHER -> StrSource(git_source_of(request.base, request.ref)))

\* the objects of hooks and tool-server files: key k holds a number, a
\* string with the placeholder, a list or an object; key j a number
Objects ==
    {EmptyDict,
     [k \in {"k"} |-> JNum(1)],
     [k \in {"k"} |-> JStr(<<"${CLAUDE_PLUGIN_ROOT}", "/bin">>)],
     [k \in {"k"} |-> JList(<<JNum(1)>>)],
     [k \in {"k"} |-> JList(<<JNum(2), JStr(<<"${CLAUDE_PLUGIN_ROOT}">>)>>)],
     [k \in {"k"} |-> JDict([x \in {"x"} |-> JNum(1)])],
     [k \in {"k"} |-> JDict([x \in {"x"} |-> JNum(2)])],
     [k \in {"k"} |-> JDict([x \in {"y"} |-> JList(<<JNum(3)>>)])],
     [k \in {"j"} |-> JNum(1)],
     [k \in {"k", "j"} |-> IF k = "k" THEN JDict([x \in {"x"} |-> JNum(1)]) ELSE JNum(2)]}
OptionalObjects == {<<>>} \cup {<<object>> : object \in Objects}
Declarations ==
    {NotDeclared} \cup {Inline(object) : object \in Objects}
    \cup {ByPath(file) : file \in OptionalObjects}
McpKeys == {"mcpServers", "servers"}
PluginRoot == "/cache/a"

\* a marketplace whose entries are a directory with a manifest (a), a
\* directory without one (b) and three remote repositories (d, f, h), and what
\* git clone fetches for a remote entry: nothing, a plugin whose manifest
\* names the entry, or a plugin without a manifest
RemoteEntries ==
    <<PluginEntry(NameA, StrSource(<<".", "/", "a">>)),
      PluginEntry(NameB, StrSource(<<".", "/", "b">>)),
      PluginEntry(<<"d">>, DictSource("github", OwnerRepo, <<>>)),
      PluginEntry(<<"f">>, DictSource("url", <<>>, HttpsUrl)),
      PluginEntry(<<"h">>, StrSource(<<"a", "/", "b">>))>>
RemoteMarket ==
    MarketDir(JsonFile("object", NameM, RemoteEntries),
              [p \in {NameA, NameB} |->
                  IF p = NameA THEN PluginA ELSE PluginDir(NameB, MissingFile, "missing")])
ClonesOf(plugin_name) ==
    IF plugin_name \in RemoteEntryNames
    THEN {<<>>, <<PluginDir(<<"p", "l", "u", "g", "i", "n">>, Manifest(plugin_name), "missing")>>,
          <<PluginDir(<<"p", "l", "u", "g", "i", "n">>, MissingFile, "missing")>>}
    ELSE {<<>>}

\* plugins that bring hooks, and the --plugin-dir lists of a start
HooksOfA == HooksData([Stop |-> <<RawCommandRule>>], NoHooksKey)
HooksOfB == HooksData([Stop |-> <<RawPromptRule>>], NoHooksKey)
HookedA == [PluginA EXCEPT !.hooks_json = <<HooksOfA>>]
HookedB == [PluginDir(NameB, Manifest(NameB), "missing") EXCEPT !.hooks_json = <<HooksOfB>>]
RootOf(dir) == [at |-> <<dir>>, basename |-> dir.basename]
ExtraDirs ==
    {<<>>, <<RootOf(HookedA)>>, <<RootOf(PluginArray)>>, <<RootOf(PluginBroken)>>,
     <<[at |-> <<>>, basename |-> NameB]>>, <<RootOf(PluginBroken), RootOf(HookedA)>>}

----------------------------------------------------------------------------
(* States and actions *)

NoCall == [NewCall("", ToolCallRequest(<<>>, EmptyDict, ""), FALSE) EXCEPT !.pc = "idle"]
NoDispatch ==
    [done |-> FALSE, event |-> "", match_value |-> <<>>, env |-> <<>>,
     out |-> NotDispatched]
NoMergeIn == [A |-> EmptyHooksConfig, B |-> EmptyHooksConfig, C |-> EmptyHooksConfig]
NoMergeOut ==
    [done |-> FALSE, AB |-> EmptyHooksConfig, left |-> EmptyHooksConfig,
     right |-> EmptyHooksConfig]
NoMatchIn == [matcher |-> <<>>, value |-> <<>>]
NoMatchOut == [done |-> FALSE, fired |-> FALSE]

NoStop == [done |-> FALSE, event |-> "", env |-> <<>>, out |-> NotDispatched, value |-> FALSE]
NoFiles == [slot \in Slots |-> AbsentFile]
NoLoad ==
    [done |-> FALSE, files |-> NoFiles, env_model |-> <<>>, model |-> <<>>,
     raised |-> FALSE, config |-> DefaultConfig]
NoLegacy ==
    [done |-> FALSE, prefix |-> <<>>, T |-> <<>>, N |-> <<>>,
     config |-> EmptyHooksConfig, fired |-> [e \in HOOK_EVENTS |-> FALSE]]
\* an operation of the plugin commands and how it ended: name is the
\* plugin installed or named (the marketplace for "add"); available tells
\* whether the origin of the plugin existed
NoOp ==
    [op |-> "", name |-> <<>>, scope |-> "", marketplace |-> <<>>, raised |-> FALSE,
     failed |-> FALSE, available |-> FALSE]
EmptyDisk ==
    [project_dirs |-> <<>>, files |-> NoFiles, cache |-> EmptyDict,
     marketplaces_dir |-> FALSE, marketplaces |-> EmptyDict,
     index |-> [exists |-> FALSE, marketplaces |-> EmptyDict]]
NoWorld ==
    [disk |-> EmptyDisk, enabled_plugins |-> EmptyDict, before |-> EmptyDisk,
     prev |-> NoOp, last |-> NoOp, listed |-> EmptyDict, ops |-> 0]

\* the disks a session starts on: the project directories that exist, the
\* user's settings.json and the first project directory's
InitialDisks ==
    {[EmptyDisk EXCEPT !.files = [@ EXCEPT !["global"] = user]] : user \in UserSettings}
    \cup {[EmptyDisk EXCEPT !.project_dirs = dirs,
                            !.files = [@ EXCEPT !["global"] = user, ![dirs[1]] = project]] :
            dirs \in {<<"langcode", "claude">>, <<"claude">>},
            user \in UserSettings, project \in ProjectSettings}

\* the session on a disk: its Config is what load_config makes of the files
Session(disk) ==
    [NoWorld EXCEPT !.disk = disk, !.before = disk,
                    !.enabled_plugins =
                        load_config(disk.files, <<>>, <<>>).config.enabled_plugins]


\* the disks a program starts on after earlier sessions installed plugin a
\* (by path or through marketplace m) and plugin b and disabled one of them;
\* the cached .mcp.json of b may have been edited into a JSON array since
InstalledA(disk) ==
    {disk, install_plugin_from_path(disk, <<HookedA>>, NameA, "user", <<>>).disk,
     install_plugin_from_path(disk, <<HookedA>>, NameA, "user", NameM).disk}
InstalledB(disk) ==
    {disk} \cup
    LET with == install_plugin_from_path(disk, <<HookedB>>, NameB, "user", <<>>).disk
    IN  {with, [with EXCEPT !.cache[NameB].mcp_json = "array"]}
Disabled(disk) ==
    {disk, disable_plugin(disk, NameA, "user"), disable_plugin(disk, NameB, "user")}
StartupDisks ==
    UNION {UNION {UNION {Disabled(c) : c \in InstalledB(b)} : b \in InstalledA(a)} :
             a \in {d \in InitialDisks : d.project_dirs = <<>>}}

\* the disks of a session after plugin a was installed at scope user, from
\* a directory or through marketplace m
ToggleDisks ==
    UNION {{install_plugin_from_path(disk, <<PluginA>>, NameA, "user", <<>>).disk,
            install_from_marketplace(
                add_marketplace(disk, SlashD, LocalDir(GoodMarket), <<>>).disk,
                NameA, NameM, "user", <<>>).disk} : disk \in InitialDisks}

\* the disks of a session after marketplace m was added
RemoteDisks ==
    {add_marketplace(disk, SlashD, LocalDir(RemoteMarket), <<>>).disk :
        disk \in {d \in InitialDisks : d.project_dirs = <<>>}}

NoLoaded ==
    [done |-> FALSE, at |-> <<>>, basename |-> <<>>, name_override |-> <<>>,
     plugin |-> NoPlugin]
\* a disk whose marketplace m offers one plugin entry
DiskOffering(entry) ==
    add_marketplace(EmptyDisk, SlashD,
                    LocalDir(MarketDir(JsonFile("object", NameM, <<entry>>), EmptyDict)),
                    <<>>).disk

\* a remote source asked for (through add_marketplace or through the source
\* of a plugin entry), whether git can fetch it, the command built for it
\* and whether the operation got its marketplace or plugin
NoClone ==
    [done |-> FALSE, via |-> "", base |-> <<>>, ref |-> <<>>, fetched |-> FALSE,
     cmd |-> <<>>, ok |-> FALSE]
\* the object of the sidecar file (hooks/hooks.json, and .mcp.json under
\* mcp_key), what plugin.json declares (for hooks, and for mcpServers with
\* a referenced file's object under mcp_key), and the two results
NoComponents ==
    [done |-> FALSE, sidecar |-> <<>>, declared |-> NotDeclared, mcp_key |-> "mcpServers",
     hooks_config |-> EmptyDict, mcp_servers |-> EmptyDict]
NoStartup ==
    [done |-> FALSE, extra_dirs |-> <<>>, raised |-> FALSE, plugins |-> <<>>]
UnitIdle ==
    /\ pluginLoad = NoLoaded /\ clone = NoClone /\ components = NoComponents
    /\ startup = NoStartup

MergeIdle == mergeIn = NoMergeIn /\ mergeOut = NoMergeOut
RestIdle == stop = NoStop /\ load = NoLoad /\ legacy = NoLegacy /\ world = NoWorld
MatchIdle == matchIn = NoMatchIn /\ matchOut = NoMatchOut

\* An agent's model asks for a tool.  The main agent's tool node enters
\* HooksMiddleware.wrap_tool_call, which dispatches PreToolUse; the tool
\* node of an agent without the middleware goes straight to the handler.
ToolCall(agent, request) ==
    /\ call.pc = "idle"
    /\ IF HasHooksMiddleware(agent)
       THEN \E envPre \in [1..SpawnCount(hooks["PreToolUse"], 1, request.name) -> ToolProcs] :
                call' = pre_dispatch(hooks, NewCall(agent, request, TRUE), envPre)
       ELSE call' = [NewCall(agent, request, FALSE) EXCEPT !.pc = "calling"]
    /\ UNCHANGED <<hooks, dispatch, mergeIn, mergeOut, matchIn, matchOut, stop, load, legacy, world, unitVars>>

\* The user answers the prompt wrap_tool_call blocks on.
Answer(answer) ==
    /\ call.pc = "asking"
    /\ call' = ask_user(call, answer)
    /\ UNCHANGED <<hooks, dispatch, mergeIn, mergeOut, matchIn, matchOut, stop, load, legacy, world, unitVars>>

\* The downstream handler runs the tool and returns value.
Handle(value) ==
    /\ call.pc = "calling"
    /\ call' = IF call.wrapped THEN call_handler(call, value)
               ELSE call_unwrapped(call, value)
    /\ UNCHANGED <<hooks, dispatch, mergeIn, mergeOut, matchIn, matchOut, stop, load, legacy, world, unitVars>>

\* wrap_tool_call dispatches PostToolUse and returns.
PostDispatch ==
    /\ call.pc = "handled"
    /\ \E envPost \in [1..SpawnCount(hooks["PostToolUse"], 1, call.request.name) -> ToolProcs] :
           call' = post_dispatch(hooks, call, envPost)
    /\ UNCHANGED <<hooks, dispatch, mergeIn, mergeOut, matchIn, matchOut, stop, load, legacy, world, unitVars>>

\* execute_hooks called for an event with a match value
ExecuteHooks(event, match_value, env) ==
    /\ ~dispatch.done
    /\ dispatch' = [done |-> TRUE, event |-> event, match_value |-> match_value,
                    env |-> env,
                    out |-> execute_hooks(hooks, event, match_value, EmptyDict, env)]
    /\ UNCHANGED <<hooks, call, mergeIn, mergeOut, matchIn, matchOut, stop, load, legacy, world, unitVars>>

\* A.merge(B) and both groupings of a three-way merge
MergeScopes ==
    /\ ~mergeOut.done
    /\ mergeOut' = [done |-> TRUE,
                    AB |-> merge(mergeIn.A, mergeIn.B),
                    left |-> merge(merge(mergeIn.A, mergeIn.B), mergeIn.C),
                    right |-> merge(mergeIn.A, merge(mergeIn.B, mergeIn.C))]
    /\ UNCHANGED <<hooks, call, dispatch, mergeIn, matchIn, matchOut, stop, load, legacy, world, unitVars>>

\* HookRule(matcher).matches(value)
Matches ==
    /\ ~matchOut.done
    /\ matchOut' = [done |-> TRUE,
                    fired |-> matches(HookRule(matchIn.matcher, <<>>), matchIn.value)]
    /\ UNCHANGED <<hooks, call, dispatch, mergeIn, mergeOut, matchIn, stop, load, legacy, world, unitVars>>

\* an agent's turn ends: run_stop_hooks(config)
RunStopHooks(env) ==
    /\ ~stop.done
    /\ stop' = [done |-> TRUE, event |-> "Stop", env |-> env] @@ run_stop_hooks(hooks, env)
    /\ UNCHANGED <<hookVars, load, legacy, world, unitVars>>

\* a sub-agent's turn ends: run_subagent_stop_hooks(config)
RunSubagentStopHooks(env) ==
    /\ ~stop.done
    /\ stop' = [done |-> TRUE, event |-> "SubagentStop", env |-> env]
                @@ run_subagent_stop_hooks(hooks, env)
    /\ UNCHANGED <<hookVars, load, legacy, world, unitVars>>

\* load_config(model) with LANGCODE_MODEL = env_model on the files on disk
LoadConfig(env_model, model) ==
    /\ ~load.done
    /\ load' = [done |-> TRUE, files |-> load.files, env_model |-> env_model,
                model |-> model] @@ load_config(load.files, env_model, model)
    /\ UNCHANGED <<hookVars, stop, legacy, world, unitVars>>

\* the events for which some rule of a registry fires for a value
FiresFor(config, value) ==
    [e \in HOOK_EVENTS |->
        \E i \in 1..Len(get_rules(config, e)) : matches(get_rules(config, e)[i], value)]

\* A legacy map {"pre:T": "fmt"} (or "post:T") is converted, and a call of
\* tool N is matched against the rules it gave.
ConvertLegacy ==
    /\ ~legacy.done
    /\ LET key == legacy.prefix \o <<":">> \o legacy.T
           config == convert_legacy_hooks(<<[key |-> key, value |-> "fmt"]>>)
       IN  legacy' = [legacy EXCEPT !.done = TRUE, !.config = config,
                                    !.fired = FiresFor(config, legacy.N)]
    /\ UNCHANGED <<hookVars, stop, load, world, unitVars>>

\* the world after an operation
Did(op, disk, listed) ==
    [world EXCEPT !.disk = disk, !.before = world.disk, !.prev = world.last,
                  !.last = op, !.listed = listed, !.ops = @ + 1]

\* /plugin install <path> --scope <scope>
InstallPluginFromPath(at, scope, marketplace) ==
    /\ world.ops < MaxOps
    /\ LET basename == IF at = <<>> THEN NameA ELSE at[1].basename
           installed == install_plugin_from_path(world.disk, at, basename, scope, marketplace)
       IN  world' = Did([op |-> "install", name |-> installed.plugin.name, scope |-> scope,
                         marketplace |-> marketplace, raised |-> installed.plugin.raised,
                         failed |-> installed.plugin.error, available |-> at # <<>>],
                        installed.disk, EmptyDict)
    /\ UNCHANGED <<hookVars, stop, load, legacy, unitVars>>

\* /plugin uninstall <name> --scope <scope>
UninstallPlugin(name, scope) ==
    /\ world.ops < MaxOps
    /\ world' = Did([NoOp EXCEPT !.op = "uninstall", !.name = name, !.scope = scope],
                    uninstall_plugin(world.disk, name, scope), EmptyDict)
    /\ UNCHANGED <<hookVars, stop, load, legacy, unitVars>>

\* /plugin enable <name> --scope <scope>
EnablePlugin(name, scope) ==
    /\ world.ops < MaxOps
    /\ world' = Did([NoOp EXCEPT !.op = "enable", !.name = name, !.scope = scope],
                    enable_plugin(world.disk, name, scope), EmptyDict)
    /\ UNCHANGED <<hookVars, stop, load, legacy, unitVars>>

\* /plugin disable <name> --scope <scope>
DisablePlugin(name, scope) ==
    /\ world.ops < MaxOps
    /\ world' = Did([NoOp EXCEPT !.op = "disable", !.name = name, !.scope = scope],
                    disable_plugin(world.disk, name, scope), EmptyDict)
    /\ UNCHANGED <<hookVars, stop, load, legacy, unitVars>>

\* /plugin list, on the session's Config
ListPlugins ==
    /\ world.ops < MaxOps
    /\ world' = Did([NoOp EXCEPT !.op = "list"], world.disk,
                    list_plugins(world.disk, world.enabled_plugins))
    /\ UNCHANGED <<hookVars, stop, load, legacy, unitVars>>

\* load_config() of a new process on the disk, as far as plugins go
fresh_enabled_plugins(disk) == load_config(disk.files, <<>>, <<>>).config.enabled_plugins

\* langcode plugin list, in a new process
ListPluginsFresh ==
    /\ world.ops < MaxOps
    /\ world' = Did([NoOp EXCEPT !.op = "list_fresh"], world.disk,
                    list_plugins(world.disk, fresh_enabled_plugins(world.disk)))
    /\ UNCHANGED <<hookVars, stop, load, legacy, unitVars>>

\* a new process starts and loads the enabled plugins: listed gets the
\* plugins of the result by name
LoadEnabledPlugins ==
    /\ world.ops < MaxOps
    /\ LET loaded == load_enabled_plugins(world.disk, fresh_enabled_plugins(world.disk),
                                          <<>>)
       IN  world' = Did([NoOp EXCEPT !.op = "load_enabled", !.raised = loaded.raised],
                        world.disk,
                        [n \in {loaded.plugins[i].name : i \in 1..Len(loaded.plugins)} |->
                            CHOOSE q \in {loaded.plugins[i] : i \in 1..Len(loaded.plugins)} :
                                q.name = n])
    /\ UNCHANGED <<hookVars, stop, load, legacy, unitVars>>

\* /plugin update <name>: available tells whether the plugin's origin (the
\* directory it was installed from, or the repository it was cloned from)
\* still exists with the content it had; the temporary directory of a
\* clone is gone since its installation
UpdatePlugin(name, available) ==
    /\ world.ops < MaxOps
    /\ LET bare_name == split_at_0(name)
           cached == world.disk.cache[bare_name]
           at_source ==
               IF bare_name \notin DOMAIN world.disk.cache \/ cached.meta = <<>> THEN <<>>
               ELSE IF ~available \/ cached.meta[1].source.temporary THEN <<>>
               ELSE <<[cached EXCEPT !.basename = cached.meta[1].source.basename,
                                     !.meta = <<>>]>>
           updated == update_plugin(world.disk, name, at_source)
       IN  world' = Did([NoOp EXCEPT !.op = "update", !.name = name,
                                     !.raised = updated.plugin.raised,
                                     !.failed = updated.none \/ updated.plugin.error,
                                     !.available = available],
                        updated.disk, EmptyDict)
    /\ UNCHANGED <<hookVars, stop, load, legacy, unitVars>>

\* /plugin marketplace add <source>
AddMarketplace(src) ==
    /\ world.ops < MaxOps
    /\ LET added == add_marketplace(world.disk, src.source, src.at, src.cloned)
       IN  world' = Did([NoOp EXCEPT !.op = "add",
                                     !.name = IF added.marketplace # <<>>
                                              THEN added.marketplace[1] ELSE <<>>,
                                     !.raised = added.raised,
                                     !.failed = added.marketplace = <<>>],
                        added.disk, EmptyDict)
    /\ UNCHANGED <<hookVars, stop, load, legacy, unitVars>>

\* /plugin install <plugin>@<marketplace> --scope <scope>
InstallFromMarketplace(plugin_name, marketplace_name, scope, cloned) ==
    /\ world.ops < MaxOps
    /\ LET installed == install_from_marketplace(world.disk, plugin_name, marketplace_name,
                                                 scope, cloned)
       IN  world' = Did([op |-> "market_install", name |-> plugin_name, scope |-> scope,
                         marketplace |-> marketplace_name,
                         raised |-> installed.plugin.raised,
                         failed |-> installed.none \/ installed.plugin.error,
                         available |-> TRUE],
                        installed.disk, EmptyDict)
    /\ UNCHANGED <<hookVars, stop, load, legacy, unitVars>>

\* load_plugin is called on a directory
LoadPlugin ==
    /\ ~pluginLoad.done
    /\ pluginLoad' = [pluginLoad EXCEPT
                    !.done = TRUE,
                    !.plugin = load_plugin_as(pluginLoad.at, pluginLoad.basename,
                                              pluginLoad.name_override)]
    /\ UNCHANGED <<hookVars, stop, load, legacy, world, clone, components, startup>>

\* add_marketplace or install_from_marketplace is given a remote source
ResolveSource ==
    /\ ~clone.done
    /\ LET source == git_source_of(clone.base, clone.ref)
           added == add_marketplace(EmptyDisk, source, Nothing,
                                    IF clone.fetched THEN <<GoodMarket>> ELSE <<>>)
           installed == install_from_marketplace(
                            DiskOffering(EntryOf(clone)), NameA, NameM, "user",
                            IF clone.fetched THEN <<PluginA>> ELSE <<>>)
       IN  clone' = [clone EXCEPT
                        !.done = TRUE,
                        !.cmd = clone_command(source),
                        !.ok = IF clone.via = "add_marketplace"
                               THEN added.marketplace # <<>>
                               ELSE ~installed.none /\ ~installed.plugin.error]
    /\ UNCHANGED <<hookVars, stop, load, legacy, world, pluginLoad, components, startup>>

\* a tool-server file that holds object under key
McpFile(key, object) == IF object = <<>> THEN <<>> ELSE <<[k \in {key} |-> JDict(object[1])]>>

\* _discover_components reads a plugin's hook and tool-server config
DiscoverComponents ==
    /\ ~components.done
    /\ components' =
          [components EXCEPT
              !.done = TRUE,
              !.hooks_config =
                  discover_hooks(components.sidecar, components.declared, PluginRoot),
              !.mcp_servers =
                  discover_mcp_servers(
                      McpFile(components.mcp_key, components.sidecar),
                      [components.declared EXCEPT
                          !.file = McpFile(components.mcp_key, @)],
                      PluginRoot)]
    /\ UNCHANGED <<hookVars, stop, load, legacy, world, pluginLoad, clone, startup>>

\* the program starts: load_enabled_plugins on the --plugin-dir directories
\* and the cache, then the merge of the loaded plugins' hooks
Startup ==
    /\ ~startup.done
    /\ LET loaded == load_enabled_plugins(world.disk, world.enabled_plugins,
                                          startup.extra_dirs)
       IN  /\ startup' = [startup EXCEPT !.done = TRUE, !.raised = loaded.raised,
                                         !.plugins = IF loaded.raised THEN <<>>
                                                     ELSE loaded.plugins]
           /\ hooks' = IF loaded.raised THEN hooks
                       ELSE merge_plugin_hooks(hooks, loaded.plugins)
    /\ UNCHANGED <<call, dispatch, mergeIn, mergeOut, matchIn, matchOut, stop, load, legacy,
                   world, pluginLoad, clone, components>>

----------------------------------------------------------------------------
(* Specifications *)

\* the agents of a session making tool calls under the session's registry
Init ==
    /\ hooks \in AgentConfigs
    /\ call = NoCall
    /\ dispatch = NoDispatch
    /\ MergeIdle /\ MatchIdle /\ RestIdle
    /\ UnitIdle

Next ==
    \/ \E agent \in Agents : \E request \in Requests(agent) : ToolCall(agent, request)
    \/ \E answer \in Answers : Answer(answer)
    \/ \E value \in HandlerValues : Handle(value)
    \/ PostDispatch

Spec == Init /\ [][Next]_vars

\* direct dispatches of any event on any registry
EngineInit ==
    /\ hooks \in EngineConfigs
    /\ call = NoCall
    /\ dispatch = NoDispatch
    /\ MergeIdle /\ MatchIdle /\ RestIdle
    /\ UnitIdle

EngineNext ==
    \E event \in HOOK_EVENTS, match_value \in MatchValuesOfDispatch :
        \E env \in [1..SpawnCount(hooks[event], 1, match_value) -> EngineProcs] :
            ExecuteHooks(event, match_value, env)

SpecEngine == EngineInit /\ [][EngineNext]_vars

\* dispatches of one rule whose hook processes do anything at all
OutcomeInit ==
    /\ hooks \in OutcomeConfigs
    /\ call = NoCall
    /\ dispatch = NoDispatch
    /\ MergeIdle /\ MatchIdle /\ RestIdle
    /\ UnitIdle

OutcomeNext ==
    \E event \in {"PreToolUse", "Stop"}, match_value \in {Write, Star} :
        \E env \in [1..SpawnCount(hooks[event], 1, match_value) -> OutcomeProcs] :
            ExecuteHooks(event, match_value, env)

SpecOutcome == OutcomeInit /\ [][OutcomeNext]_vars

\* the stop hooks at the end of a turn
StopInit ==
    /\ hooks \in StopConfigs
    /\ call = NoCall
    /\ dispatch = NoDispatch
    /\ MergeIdle /\ MatchIdle /\ RestIdle
    /\ UnitIdle

StopNext ==
    \/ \E env \in [1..SpawnCount(hooks["Stop"], 1, Star) -> StopProcs] : RunStopHooks(env)
    \/ \E env \in [1..SpawnCount(hooks["SubagentStop"], 1, Star) -> StopProcs] :
           RunSubagentStopHooks(env)

SpecStop == StopInit /\ [][StopNext]_vars

\* loading the configuration from any settings files
LoadInit ==
    /\ hooks = EmptyHooksConfig
    /\ call = NoCall
    /\ dispatch = NoDispatch
    /\ MergeIdle /\ MatchIdle
    /\ stop = NoStop /\ legacy = NoLegacy /\ world = NoWorld
    /\ UnitIdle
    /\ load \in {[NoLoad EXCEPT !.files = f] : f \in [Slots -> FileContents]}

LoadNext == \E env_model \in EnvModels, model \in CliModels : LoadConfig(env_model, model)

SpecLoad == LoadInit /\ [][LoadNext]_vars

\* loading a user settings file written in one dialect or in two
DialectsInit ==
    /\ hooks = EmptyHooksConfig
    /\ call = NoCall
    /\ dispatch = NoDispatch
    /\ MergeIdle /\ MatchIdle
    /\ stop = NoStop /\ legacy = NoLegacy /\ world = NoWorld
    /\ UnitIdle
    /\ load \in {[NoLoad EXCEPT !.files = [NoFiles EXCEPT !["global"] = file]] :
                    file \in DialectFiles}

SpecDialects == DialectsInit /\ [][LoadNext]_vars

\* legacy entries for any tool name, matched against any tool name
LegacyInit ==
    /\ hooks = EmptyHooksConfig
    /\ call = NoCall
    /\ dispatch = NoDispatch
    /\ MergeIdle /\ MatchIdle
    /\ stop = NoStop /\ load = NoLoad /\ world = NoWorld
    /\ UnitIdle
    /\ legacy \in {[NoLegacy EXCEPT !.prefix = p, !.T = t, !.N = n] :
                      p \in LegacyPrefixes, t \in ToolNames, n \in ToolNames}

SpecLegacy == LegacyInit /\ [][ConvertLegacy]_vars

\* HooksConfig.merge on drawn registries
MergeInit ==
    /\ hooks = EmptyHooksConfig
    /\ call = NoCall
    /\ dispatch = NoDispatch
    /\ mergeIn \in [A : ScopeConfigs, B : ScopeConfigs, C : ScopeConfigs]
    /\ mergeOut = NoMergeOut
    /\ MatchIdle /\ RestIdle
    /\ UnitIdle

SpecMerge == MergeInit /\ [][MergeScopes]_vars

\* HookRule.matches on drawn matchers and values
MatchInit ==
    /\ hooks = EmptyHooksConfig
    /\ call = NoCall
    /\ dispatch = NoDispatch
    /\ MergeIdle
    /\ matchIn \in [matcher : Matchers, value : MatchValues]
    /\ matchOut = NoMatchOut
    /\ RestIdle
    /\ UnitIdle

SpecMatch == MatchInit /\ [][Matches]_vars

\* a session installing, uninstalling, enabling, disabling and listing
\* plugins
PluginsInit ==
    /\ hooks = EmptyHooksConfig
    /\ call = NoCall
    /\ dispatch = NoDispatch
    /\ MergeIdle /\ MatchIdle
    /\ stop = NoStop /\ load = NoLoad /\ legacy = NoLegacy
    /\ UnitIdle
    /\ world \in {Session(disk) : disk \in InitialDisks}

PluginsNext ==
    \/ \E at \in LoadablePlugins \cup {<<PluginBroken>>} : \E scope \in Scopes :
            InstallPluginFromPath(at, scope, <<>>)
    \/ \E name \in PluginKeys : \E scope \in Scopes : UninstallPlugin(name, scope)
    \/ \E name \in PluginKeys : \E scope \in Scopes : EnablePlugin(name, scope)
    \/ \E name \in PluginKeys : \E scope \in Scopes : DisablePlugin(name, scope)
    \/ ListPlugins

SpecPlugins == PluginsInit /\ [][PluginsNext]_vars

\* a session adding marketplaces and installing from them and from paths
MarketInit ==
    /\ hooks = EmptyHooksConfig
    /\ call = NoCall
    /\ dispatch = NoDispatch
    /\ MergeIdle /\ MatchIdle
    /\ stop = NoStop /\ load = NoLoad /\ legacy = NoLegacy
    /\ UnitIdle
    /\ world \in {Session(disk) : disk \in {d \in InitialDisks : d.project_dirs = <<>>}}

MarketNext ==
    \/ \E src \in MarketSources : AddMarketplace(src)
    \/ \E asked \in MarketInstalls : \E marketplace_name \in MarketNames :
            InstallFromMarketplace(asked.plugin_name, marketplace_name, "user", asked.cloned)
    \/ \E at \in PluginPaths : \E scope \in MarketScopes :
            InstallPluginFromPath(at, scope, <<>>)

SpecMarket == MarketInit /\ [][MarketNext]_vars

\* load_plugin on drawn directories
LoadPluginInit ==
    /\ hooks = EmptyHooksConfig
    /\ call = NoCall
    /\ dispatch = NoDispatch
    /\ MergeIdle /\ MatchIdle /\ RestIdle
    /\ clone = NoClone /\ components = NoComponents /\ startup = NoStartup
    /\ pluginLoad \in {[NoLoaded EXCEPT !.at = at, !.basename = b, !.name_override = o] :
                         at \in LoadRoots, b \in {NameA, NameB}, o \in NameOverrides}

SpecLoadPlugin == LoadPluginInit /\ [][LoadPlugin]_vars

\* sessions that disable, enable, list and uninstall an installed plugin
ToggleInit ==
    /\ hooks = EmptyHooksConfig
    /\ call = NoCall
    /\ dispatch = NoDispatch
    /\ MergeIdle /\ MatchIdle
    /\ stop = NoStop /\ load = NoLoad /\ legacy = NoLegacy
    /\ UnitIdle
    /\ world \in {Session(disk) : disk \in ToggleDisks}

ToggleNext ==
    \/ \E name \in {NameA, NameAAtM} : \E scope \in Scopes : DisablePlugin(name, scope)
    \/ \E name \in {NameA, NameAAtM} : \E scope \in Scopes : EnablePlugin(name, scope)
    \/ ListPlugins
    \/ ListPluginsFresh
    \/ LoadEnabledPlugins
    \/ \E scope \in Scopes : UninstallPlugin(NameA, scope)

SpecToggle == ToggleInit /\ [][ToggleNext]_vars

\* sessions that install the entries of a marketplace and update plugins
RemoteInit ==
    /\ hooks = EmptyHooksConfig
    /\ call = NoCall
    /\ dispatch = NoDispatch
    /\ MergeIdle /\ MatchIdle
    /\ stop = NoStop /\ load = NoLoad /\ legacy = NoLegacy
    /\ UnitIdle
    /\ world \in {Session(disk) : disk \in RemoteDisks}

RemoteNext ==
    \/ \E plugin_name \in {NameA, NameB} \cup RemoteEntryNames :
            \E cloned \in ClonesOf(plugin_name) :
                InstallFromMarketplace(plugin_name, NameM, "user", cloned)
    \/ \E name \in {NameA, NameB, <<"d">>, <<"p", "l", "u", "g", "i", "n">>} :
            \E available \in BOOLEAN : UpdatePlugin(name, available)
    \/ ListPlugins

SpecRemote == RemoteInit /\ [][RemoteNext]_vars

\* remote sources with and without a ref
CloneInit ==
    /\ hooks = EmptyHooksConfig
    /\ call = NoCall
    /\ dispatch = NoDispatch
    /\ MergeIdle /\ MatchIdle /\ RestIdle
    /\ pluginLoad = NoLoaded /\ components = NoComponents /\ startup = NoStartup
    /\ clone \in {[NoClone EXCEPT !.via = r.via, !.base = r.base, !.ref = r.ref,
                                   !.fetched = r.fetched] : r \in CloneRequests}

SpecClone == CloneInit /\ [][ResolveSource]_vars

\* component discovery on drawn hook and tool-server files
ComponentsInit ==
    /\ hooks = EmptyHooksConfig
    /\ call = NoCall
    /\ dispatch = NoDispatch
    /\ MergeIdle /\ MatchIdle /\ RestIdle
    /\ pluginLoad = NoLoaded /\ clone = NoClone /\ startup = NoStartup
    /\ components \in {[NoComponents EXCEPT !.sidecar = sidecar, !.declared = declared,
                                             !.mcp_key = key] :
                           sidecar \in OptionalObjects, declared \in Declarations,
                           key \in McpKeys}

SpecComponents == ComponentsInit /\ [][DiscoverComponents]_vars

\* a program start on a disk with cached plugins and --plugin-dir directories
StartupInit ==
    /\ hooks = EmptyHooksConfig
    /\ call = NoCall
    /\ dispatch = NoDispatch
    /\ MergeIdle /\ MatchIdle
    /\ stop = NoStop /\ load = NoLoad /\ legacy = NoLegacy
    /\ pluginLoad = NoLoaded /\ clone = NoClone /\ components = NoComponents
    /\ world \in {Session(disk) : disk \in StartupDisks}
    /\ startup \in {[NoStartup EXCEPT !.extra_dirs = dirs] : dirs \in ExtraDirs}

SpecStartup == StartupInit /\ [][Startup]_vars

----------------------------------------------------------------------------
(* Claims about the tool-call policy middleware (Spec) *)

Ended == call.pc \in {"returned", "raised"}
Denial == call.returned.kind = "ToolMessage"
Permission == call.pre.result.permission
SaidYes == strip_lower(call.answer) \in {"y", "yes"}

\* C1: in wrap_tool_call the handler is invoked only if the PreToolUse
\* permission is not "deny" and, when it is "ask", the user answered y or
\* yes (as the prompt reads the answer: stripped, lower-cased).  In every
\* other case a denial ToolMessage with the request's tool_call_id is
\* returned, the handler is never called and PostToolUse is not dispatched.
C1_HandlerOnlyIfPermitted ==
    call.wrapped /\ call.pc \notin {"idle", "received"} =>
        /\ call.handled # <<>> =>
              /\ ~call.pre.raised
              /\ Permission # "deny"
              /\ Permission = "ask" => SaidYes
        /\ /\ ~call.pre.raised
           /\ \/ Permission = "deny"
              \/ Permission = "ask" /\ call.pc # "asking" /\ ~SaidYes
           => /\ call.pc = "returned"
              /\ call.returned.kind = "ToolMessage"
              /\ call.returned.content \in {DENIED_BY_HOOK, DENIED_BY_USER}
              /\ call.returned.tool_call_id = call.request.id
              /\ call.handled = <<>>
              /\ call.post = NotDispatched
              /\ \A i \in 1..Len(call.steps) : call.steps[i] \notin {"handler", "PostToolUse"}

\* the user declined the prompt of a confirm hook and the call of request
\* id2 came back as a denial
C1_Witness ==
    /\ call.wrapped /\ call.pc = "returned"
    /\ Permission = "ask" /\ call.prompted /\ call.answer = "n"
    /\ call.returned = ToolMessage(DENIED_BY_USER, "id2")
    /\ call.handled = <<>>

\* C2: for every tool call that is not short-circuited the steps are
\* PreToolUse dispatch, then handler, then PostToolUse dispatch, and the
\* handler is invoked exactly once per wrap_tool_call.
C2_PreHandlerPostExactlyOnce ==
    call.wrapped /\ Ended /\ ~Denial =>
        /\ Len(call.handled) = 1
        /\ call.steps \in {<<"PreToolUse", "handler", "PostToolUse">>,
                           <<"PreToolUse", "prompt", "handler", "PostToolUse">>}

\* C3: whatever the PostToolUse hooks do, wrap_tool_call returns exactly
\* the value the handler returned and shows no prompt after the handler.
C3_PostNeverChangesTheCall ==
    call.wrapped /\ Ended /\ call.handled # <<>> =>
        /\ call.returned = HandlerResult(call.result, call.request.id)
        /\ call.steps[Len(call.steps)] = "PostToolUse"
        /\ call.steps[Len(call.steps) - 1] = "handler"

\* C4: when the PreToolUse outcome carries an input patch (a JSON object)
\* and the call is not short-circuited, the handler receives the original
\* arguments overridden key by key by the patch; with no patch it
\* receives the arguments unchanged.  Name and id never change.
C4_HandlerReceivesPatchedArgs ==
    call.wrapped /\ call.handled # <<>> =>
        LET patch == call.pre.result.updated_input
            args == call.request.args
            got == call.handled[1].args
        IN  /\ call.handled[1].name = call.request.name
            /\ call.handled[1].id = call.request.id
            /\ patch.type = "object" =>
                  /\ DOMAIN got = (DOMAIN args) \cup (DOMAIN patch.members)
                  /\ \A k \in DOMAIN patch.members : got[k] = patch.members[k]
                  /\ \A k \in (DOMAIN args) \ (DOMAIN patch.members) : got[k] = args[k]
            /\ patch.type = "none" => got = args

\* a patch replaced file_path and left content alone
C4_Witness ==
    /\ call.wrapped /\ call.handled # <<>>
    /\ call.request.args = [file_path |-> "/a", content |-> "c"]
    /\ call.pre.result.updated_input = JObject([file_path |-> "/b"])
    /\ call.handled[1].args = [file_path |-> "/b", content |-> "c"]

\* C5: every tool invocation, by the main agent, a sub-agent or a
\* command-restricted agent, goes through a PreToolUse dispatch before the
\* tool runs.
C5_EveryToolCallIsDispatched ==
    call.handled # <<>> =>
        /\ call.steps[1] = "PreToolUse"
        /\ call.pre.result.permission # "deny"

----------------------------------------------------------------------------
(* Claims about HooksConfig.merge (SpecMerge) *)

\* C6: for all registries A and B and each of the nine events, after
\* A.merge(B) the event's rule list is A's rules followed by B's rules
\* (length = len(A[event]) + len(B[event]), nothing replaced or dropped),
\* and merging three scopes gives the same registry however the merges are
\* grouped.
C6_MergeConcatenatesAndAssociates ==
    mergeOut.done =>
        /\ \A e \in HOOK_EVENTS :
              /\ Len(mergeOut.AB[e]) = Len(mergeIn.A[e]) + Len(mergeIn.B[e])
              /\ SubSeq(mergeOut.AB[e], 1, Len(mergeIn.A[e])) = mergeIn.A[e]
              /\ SubSeq(mergeOut.AB[e], Len(mergeIn.A[e]) + 1, Len(mergeOut.AB[e]))
                    = mergeIn.B[e]
        /\ mergeOut.left = mergeOut.right
        /\ \A e \in HOOK_EVENTS :
              mergeOut.left[e] = mergeIn.A[e] \o mergeIn.B[e] \o mergeIn.C[e]

\* three scopes each bring a rule for Stop, the first two different rules
C6_Witness ==
    /\ mergeOut.done
    /\ Len(mergeIn.A["Stop"]) = 1 /\ Len(mergeIn.B["Stop"]) = 1
    /\ Len(mergeIn.C["Stop"]) = 1
    /\ mergeIn.A["Stop"] # mergeIn.B["Stop"]
    /\ mergeOut.AB["Stop"] = <<mergeIn.A["Stop"][1], mergeIn.B["Stop"][1]>>
    /\ Len(mergeOut.left["Stop"]) = 3

----------------------------------------------------------------------------
(* Claims about execute_hooks (SpecEngine) *)

\* the rules of a list that fire for a value, in order
RECURSIVE FiringRules(_, _, _)
FiringRules(rules, i, value) ==
    IF i > Len(rules) THEN <<>>
    ELSE (IF matches(rules[i], value) THEN <<rules[i]>> ELSE <<>>)
         \o FiringRules(rules, i + 1, value)

\* the hooks of the rules that fire, in firing order
RECURSIVE FiringHooks(_, _)
FiringHooks(firing, i) ==
    IF i > Len(firing) THEN <<>>
    ELSE firing[i].hooks \o FiringHooks(firing, i + 1)

Fired == FiringRules(hooks[dispatch.event], 1, dispatch.match_value)

\* C7: the outcome of a dispatch depends only on the rules registered
\* under the dispatched event that match the value: it is the outcome of
\* dispatching on a registry holding just those rules; dispatching E1 on a
\* registry whose rules are all under another event E2 runs no hook; and
\* whenever no rule fires execute_hooks returns the default outcome.
C7_OnlyMatchingRulesOfTheEvent ==
    dispatch.done =>
        /\ dispatch.out =
              execute_hooks(HooksConfigWith(dispatch.event, Fired), dispatch.event,
                            dispatch.match_value, EmptyDict, dispatch.env)
        /\ \A E2 \in HOOK_EVENTS \ {dispatch.event} :
              (\A e \in HOOK_EVENTS \ {E2} : hooks[e] = <<>>) =>
                  /\ dispatch.out.spawned = <<>>
                  /\ dispatch.out.result = HookResult
        /\ Fired = <<>> =>
              /\ ~dispatch.out.raised
              /\ dispatch.out.spawned = <<>>
              /\ dispatch.out.result.permission = "allow"
              /\ dispatch.out.result.decision = "approve"
              /\ dispatch.out.result.updated_input = None
              /\ dispatch.out.result.reason = ""
              /\ dispatch.out.result.messages = <<>>

\* Stop is dispatched on a registry whose only rules, command hooks for
\* every value, are under PreToolUse
C7_Witness ==
    /\ dispatch.done /\ dispatch.event = "Stop"
    /\ \A e \in HOOK_EVENTS \ {"PreToolUse"} : hooks[e] = <<>>
    /\ Len(hooks["PreToolUse"]) = 2
    /\ hooks["PreToolUse"][1] = HookRule(Star, <<CommandHook>>)
    /\ dispatch.out.spawned = <<>>
    /\ dispatch.out.result = HookResult

\* C9: whenever a rule that fires for the dispatch contains a command hook
\* equal to the confirm sentinel, the outcome execute_hooks returns has
\* permission "ask", and no subprocess is spawned for that hook.
C9_ConfirmYieldsAsk ==
    /\ dispatch.done /\ ~dispatch.out.raised
    /\ \E i \in 1..Len(Fired) : \E j \in 1..Len(Fired[i].hooks) :
           Fired[i].hooks[j].type = "command" /\ Fired[i].hooks[j].command = CONFIRM
    => /\ dispatch.out.result.permission = "ask"
       /\ \A k \in 1..Len(dispatch.out.spawned) : dispatch.out.spawned[k].command # CONFIRM

\* what one firing hook explicitly emits: each field a sequence of zero or
\* one value
NoEmission ==
    [permission |-> <<>>, updated_input |-> <<>>, decision |-> <<>>, reason |-> <<>>,
     messages |-> <<>>]

Emission(hook, proc) ==
    IF hook.type = "command" /\ hook.command = CONFIRM
    THEN [NoEmission EXCEPT !.permission = <<"ask">>]
    ELSE IF hook.type = "command"
    THEN LET ran == run_command_hook(hook, EmptyDict, proc)
             out == strip(ran.stdout)
             err == strip(ran.stderr)
             loaded == IF StartsWithBrace(out) THEN json_loads(out) ELSE JsonDecodeError
             data == IF loaded.ok THEN loaded.data ELSE EmptyDict
             hso == IF "hookSpecificOutput" \in DOMAIN data
                       /\ data.hookSpecificOutput.type = "object"
                    THEN data.hookSpecificOutput.members ELSE EmptyDict
             field(d, k) == IF k \in DOMAIN d THEN <<d[k]>> ELSE <<>>
         IN  [permission |-> field(hso, "permissionDecision"),
              updated_input |-> field(hso, "updatedInput"),
              decision |-> field(data, "decision"),
              reason |-> field(data, "reason"),
              messages |-> (IF out # "" THEN <<out>> ELSE <<>>)
                           \o (IF ran.exit_code = 2 /\ err # "" THEN <<err>> ELSE <<>>)
                           \o (IF "systemMessage" \in DOMAIN data /\ data.systemMessage # ""
                               THEN <<data.systemMessage>> ELSE <<>>)]
    ELSE IF hook.type = "prompt" /\ hook.prompt # ""
    THEN [NoEmission EXCEPT !.messages = <<hook.prompt>>]
    ELSE NoEmission

\* the emissions of the firing hooks, the k-th spawned process doing env[k]
RECURSIVE Emissions(_, _, _, _)
Emissions(hookSeq, i, k, env) ==
    IF i > Len(hookSeq) THEN <<>>
    ELSE LET spawns == hookSeq[i].type = "command" /\ hookSeq[i].command # CONFIRM
         IN  <<Emission(hookSeq[i], IF spawns THEN env[k] ELSE TimeoutExpired)>>
             \o Emissions(hookSeq, i + 1, IF spawns THEN k + 1 ELSE k, env)

\* the value of the last emission that set the field, else the default
RECURSIVE LastEmitted(_, _, _, _)
LastEmitted(ems, i, fieldName, default) ==
    IF i = 0 THEN default
    ELSE IF ems[i][fieldName] # <<>> THEN ems[i][fieldName][1]
    ELSE LastEmitted(ems, i - 1, fieldName, default)

RECURSIVE AllMessages(_, _)
AllMessages(ems, i) ==
    IF i > Len(ems) THEN <<>> ELSE ems[i].messages \o AllMessages(ems, i + 1)

Folded(ems) ==
    [permission |-> LastEmitted(ems, Len(ems), "permission", "allow"),
     updated_input |-> LastEmitted(ems, Len(ems), "updated_input", None),
     decision |-> LastEmitted(ems, Len(ems), "decision", "approve"),
     reason |-> LastEmitted(ems, Len(ems), "reason", ""),
     messages |-> AllMessages(ems, 1)]

\* C10: execute_hooks runs every hook of every matching rule in
\* registration order and folds the results left to right: permission,
\* input patch, stop decision and reason each end up as the value of the
\* last firing hook that explicitly emitted the field (the default when
\* none did), and messages holds every firing hook's messages in firing
\* order.
C10_EveryHookRunsAndFolds ==
    dispatch.done =>
        /\ ~dispatch.out.raised
        /\ Len(dispatch.out.spawned)
              = SpawnCount(hooks[dispatch.event], 1, dispatch.match_value)
        /\ dispatch.out.result
              = Folded(Emissions(FiringHooks(Fired, 1), 1, 1, dispatch.env))

----------------------------------------------------------------------------
(* Claims about HookRule.matches (SpecMatch) *)

\* C8: a rule fires for a match value exactly when its matcher is "*", or
\* its matcher compiles as a regex that search-matches the value
\* case-insensitively, or its matcher does not compile and equals the value
\* exactly.
C8_FiresExactlyWhen ==
    matchOut.done =>
        LET compiled == re_compile(matchIn.matcher) IN
        matchOut.fired <=>
            \/ matchIn.matcher = Star
            \/ compiled.ok /\ re_search(compiled, matchIn.value, TRUE)
            \/ ~compiled.ok /\ matchIn.matcher = matchIn.value

----------------------------------------------------------------------------
(* Claims about what hook processes can do to a dispatch (SpecOutcome) *)

\* the processes of a dispatch, in spawn order
Procs == dispatch.env

Range(f) == {f[x] : x \in DOMAIN f}

\* stdout that cannot be read as the hook protocol: no JSON object, or one
\* whose hookSpecificOutput is no object
Unreadable(proc) ==
    LET out == strip(run_command_hook(CommandHook, EmptyDict, proc).stdout)
        loaded == IF StartsWithBrace(out) THEN json_loads(out) ELSE JsonDecodeError
    IN  \/ ~loaded.ok
        \/ /\ "hookSpecificOutput" \in DOMAIN loaded.data
           /\ loaded.data.hookSpecificOutput.type \notin {"object", "none"}

ConfirmFired ==
    \E i \in 1..Len(Fired) : \E j \in 1..Len(Fired[i].hooks) :
        Fired[i].hooks[j].type = "command" /\ Fired[i].hooks[j].command = CONFIRM

\* C11: execute_hooks never raises, whatever a command hook does (any exit
\* code, a timeout, a spawn failure, any stdout): it returns an outcome,
\* and output that cannot be read as the hook protocol changes neither
\* permission, input patch, stop decision nor reason.
C11_ExecuteHooksNeverRaises ==
    dispatch.done =>
        /\ ~dispatch.out.raised
        /\ (\A k \in DOMAIN Procs : Unreadable(Procs[k])) =>
              /\ dispatch.out.result.permission = (IF ConfirmFired THEN "ask" ELSE "allow")
              /\ dispatch.out.result.updated_input = None
              /\ dispatch.out.result.decision = "approve"
              /\ dispatch.out.result.reason = ""

\* the text run_command_hook reports for a process that timed out or did
\* not start
ErrorText(proc) == run_command_hook(CommandHook, EmptyDict, proc).stderr

\* C12: when a command hook times out or fails to spawn, the outcome's
\* permission is left as it was before that hook and the hook's error text
\* (for a timeout, "hook timed out") is appended to the outcome's messages.
C12_FailedHookLeavesItsErrorText ==
    dispatch.done /\ ~dispatch.out.raised =>
        /\ dispatch.out.result.permission
              = Folded(Emissions(FiringHooks(Fired, 1), 1, 1, Procs)).permission
        /\ \A k \in DOMAIN Procs :
              Procs[k].kind \in {"timeout", "oserror"} =>
                  ErrorText(Procs[k]) \in Range(dispatch.out.result.messages)

\* C13: in every outcome execute_hooks returns, whatever the hooks print,
\* permission is one of allow, deny, ask and the stop decision is one of
\* approve, block.
C13_OutcomeFieldsAreEnumerated ==
    dispatch.done /\ ~dispatch.out.raised =>
        /\ dispatch.out.result.permission \in {"allow", "deny", "ask"}
        /\ dispatch.out.result.decision \in {"approve", "block"}

----------------------------------------------------------------------------
(* Claims about the stop hooks (SpecStop) *)

\* C14: run_stop_hooks and run_subagent_stop_hooks return True exactly
\* when the folded stop decision of the Stop, respectively SubagentStop,
\* dispatch is "approve"; any other decision makes them return False; and
\* the rules of the other event never influence the result.
C14_StopExactlyWhenApproved ==
    stop.done /\ ~stop.out.raised =>
        LET own == HooksConfigWith(stop.event, hooks[stop.event])
            alone == IF stop.event = "Stop" THEN run_stop_hooks(own, stop.env)
                     ELSE run_subagent_stop_hooks(own, stop.env)
        IN  /\ stop.value <=> stop.out.result.decision = "approve"
            /\ stop.out = alone.out
            /\ stop.value = alone.value

----------------------------------------------------------------------------
(* Claims about loading the configuration (SpecLoad) *)

\* the rules a settings file yields when it is the only one
RulesOf(file) == apply_settings(DefaultConfig, file).config.hooks

\* the files in the order global, project settings, project local overrides
InOrder == <<load.files["global"], load.files["langcode"], load.files["claude"],
             load.files["langcode.local"], load.files["claude.local"]>>

RECURSIVE LastModel(_, _)
LastModel(fileSeq, i) ==
    IF i = 0 THEN DEFAULT_MODEL
    ELSE IF fileSeq[i].kind = "object" /\ fileSeq[i].model # <<>> THEN fileSeq[i].model[1]
    ELSE LastModel(fileSeq, i - 1)

\* C15: loading the global file, then each project settings file, then
\* each project local-override file yields a registry whose rule list for
\* every event is the concatenation, in that order, of the rules of every
\* file, while the model is the value of the last file in that order that
\* defines it (LANGCODE_MODEL and the command line argument, when given,
\* take precedence over the files).
C15_LoadConcatenatesInOrder ==
    load.done /\ ~load.raised =>
        /\ \A e \in HOOK_EVENTS :
              load.config.hooks[e]
                 = RulesOf(InOrder[1])[e] \o RulesOf(InOrder[2])[e] \o RulesOf(InOrder[3])[e]
                   \o RulesOf(InOrder[4])[e] \o RulesOf(InOrder[5])[e]
        /\ load.model = <<>> /\ load.env_model = <<>> =>
              load.config.model = LastModel(InOrder, 5)
        /\ load.model = <<>> /\ load.env_model # <<>> =>
              load.config.model = load.env_model[1]
        /\ load.model # <<>> => load.config.model = load.model[1]

\* four files: Stop rules from the global file, a project file and a local
\* override in that order; the model of the local override, defined last,
\* wins over the project's m1
C15_Witness ==
    /\ load.done /\ ~load.raised
    /\ load.model = <<>> /\ load.env_model = <<>>
    /\ load.files["global"].model = <<"m2">>
    /\ load.files["langcode"].model = <<"m1">>
    /\ load.files["claude"].data.hooks.present
    /\ load.files["langcode.local"].kind = "absent"
    /\ load.files["claude.local"].model = <<"m2">>
    /\ load.config.model = "m2"
    /\ load.config.hooks["Stop"]
          = <<HookRule(Write, <<HookDef("command", "fmt $FILE", "")>>),
              HookRule(Star, <<HookDef("prompt", "", "Be careful")>>),
              HookRule(Write, <<HookDef("command", "fmt $FILE", "")>>)>>

\* the files with every malformed one taken away
WithoutMalformed ==
    [slot \in Slots |-> IF load.files[slot].kind = "malformed" THEN AbsentFile
                        ELSE load.files[slot]]

\* C16: a settings file that exists but holds malformed JSON is treated as
\* absent: load_config completes without raising and model, hooks,
\* enabled plugins and known marketplaces are as if the file did not
\* exist, the remaining scopes being loaded.
C16_MalformedSettingsAreAbsent ==
    load.done =>
        /\ ~load.raised
        /\ load.config = load_config(WithoutMalformed, load.env_model, load.model).config

----------------------------------------------------------------------------
(* Claims about legacy hook entries (SpecLegacy) *)

LegacyEvent == IF legacy.prefix = Pre THEN "PreToolUse" ELSE "PostToolUse"

\* C17: a legacy entry "pre:T" (respectively "post:T") produces one
\* PreToolUse (respectively PostToolUse) rule and nothing else, and that
\* rule fires for a tool name N only when N is T, for all tool names T and
\* N including names with regex metacharacters.
C17_LegacyRuleFiresOnlyForItsTool ==
    legacy.done =>
        /\ \A e \in HOOK_EVENTS :
              Len(legacy.config[e]) = (IF e = LegacyEvent THEN 1 ELSE 0)
        /\ \A e \in HOOK_EVENTS \ {LegacyEvent} : ~legacy.fired[e]
        /\ legacy.fired[LegacyEvent] => legacy.N = legacy.T

----------------------------------------------------------------------------
(* Claims about installing and uninstalling plugins (SpecPlugins) *)

\* the enabledPlugins map of the settings file of a scope
EnabledIn(disk, scope) ==
    read_settings(disk.files[settings_path_for_scope(disk, scope)]).enabledPlugins

\* the last two commands installed a plugin from a directory and
\* uninstalled the name it was installed under, at the same scope
RoundTrip ==
    /\ world.prev.op = "install" /\ ~world.prev.raised /\ ~world.prev.failed
    /\ world.last.op = "uninstall"
    /\ world.last.name = world.prev.name
    /\ world.last.scope = world.prev.scope

\* the last command uninstalled a name that had no cache directory and no
\* key in its scope's settings
UninstalledAgain ==
    /\ world.last.op = "uninstall"
    /\ world.last.name \notin DOMAIN world.before.cache
    /\ world.last.name \notin DOMAIN EnabledIn(world.before, world.last.scope)

\* C18: after install_plugin_from_path of a loadable plugin at scope s and
\* then uninstall_plugin of that plugin's name at scope s, the plugin's
\* cache directory does not exist and the enabledPlugins map of scope s's
\* settings file has no key for the plugin; uninstalling a plugin that is
\* not installed (again, or never installed) succeeds and leaves the cache
\* and that map as they were.
C18_InstallThenUninstallLeavesNothing ==
    /\ world.last.op = "uninstall" => ~world.last.raised /\ ~world.last.failed
    /\ RoundTrip =>
          /\ world.last.name \notin DOMAIN world.disk.cache
          /\ world.last.name \notin DOMAIN EnabledIn(world.disk, world.last.scope)
    /\ UninstalledAgain =>
          /\ world.disk.cache = world.before.cache
          /\ EnabledIn(world.disk, world.last.scope)
                = EnabledIn(world.before, world.last.scope)

\* the last two commands installed a plugin at scope user and listed the
\* plugins on the same Config
InstalledThenListed ==
    /\ world.prev.op = "install" /\ ~world.prev.raised /\ ~world.prev.failed
    /\ world.prev.scope = "user"
    /\ world.last.op = "list"

\* C19: after a successful install_plugin_from_path of a plugin named A at
\* scope user, whatever enabled-plugins settings existed before, list_plugins
\* on the same configuration includes an entry named A whose enabled flag
\* is true.
C19_InstalledPluginIsListedEnabled ==
    InstalledThenListed =>
        \E d \in DOMAIN world.listed :
            /\ world.listed[d].name = world.prev.name
            /\ world.listed[d].enabled

----------------------------------------------------------------------------
(* Claims about failed installations (SpecMarket) *)

\* the last command was add_marketplace, install_from_marketplace or
\* install_plugin_from_path and did not succeed
FailedToDistribute ==
    /\ world.last.op \in {"add", "market_install", "install"}
    /\ world.last.failed \/ world.last.raised

\* C20: whenever add_marketplace, install_from_marketplace or
\* install_plugin_from_path fails, it returns a failure value without
\* raising, and the plugin cache, the marketplace cache, the marketplace
\* registry index and the enabled-plugins settings are as before the call.
C20_FailureReturnsAndCommitsNothing ==
    FailedToDistribute =>
        /\ ~world.last.raised
        /\ world.disk.cache = world.before.cache
        /\ world.disk.marketplaces = world.before.marketplaces
        /\ world.disk.index = world.before.index
        /\ world.disk.files = world.before.files

----------------------------------------------------------------------------
(* Claims about load_plugin (SpecLoadPlugin) *)

\* the name load_plugin falls back to
StubName ==
    IF pluginLoad.name_override # <<>> THEN pluginLoad.name_override ELSE pluginLoad.basename

\* the manifest is absent, corrupted, or valid JSON that is no object with
\* a name
NoUsableManifest ==
    \/ pluginLoad.at[1].manifest.kind \in {"missing", "invalid", "array"}
    \/ pluginLoad.at[1].manifest.name = <<>>

\* C21: load_plugin never raises.  For a missing directory it returns a
\* Plugin with the load error set and the stub name (the override, else the
\* directory's basename); for a manifest that is absent, corrupted, or valid
\* JSON that is no object with a name, it returns a Plugin named by the
\* stub name, without load error unless component discovery fails; an
\* exception of component discovery is returned as the load error.
C21_LoadPluginNeverRaises ==
    pluginLoad.done =>
        /\ ~pluginLoad.plugin.raised
        /\ pluginLoad.at = <<>> =>
              pluginLoad.plugin.error /\ pluginLoad.plugin.name = StubName
        /\ pluginLoad.at # <<>> =>
              /\ pluginLoad.plugin.error = discover_components_raises(pluginLoad.at[1])
              /\ NoUsableManifest => pluginLoad.plugin.name = StubName

----------------------------------------------------------------------------
(* Claims about the program start (SpecStartup) *)

\* the extra directories that load without error, as names
ExtraNames ==
    {load_plugin(startup.extra_dirs[i].at, startup.extra_dirs[i].basename).name :
        i \in {j \in 1..Len(startup.extra_dirs) :
                 ~load_plugin(startup.extra_dirs[j].at, startup.extra_dirs[j].basename).error}}
ResultNames == {startup.plugins[i].name : i \in 1..Len(startup.plugins)}
FromExtra(name) ==
    Cardinality({i \in 1..Len(startup.extra_dirs) :
        LET p == load_plugin(startup.extra_dirs[i].at, startup.extra_dirs[i].basename)
        IN  ~p.error /\ p.name = name})
InResult(name) ==
    Cardinality({i \in 1..Len(startup.plugins) : startup.plugins[i].name = name})

\* every cache entry is looked at: the cached plugin that loads, is enabled
\* and is not shadowed by an extra directory is in the result, and no other
\* cached plugin is
CacheScanned ==
    \A d \in DOMAIN world.disk.cache :
        LET p == list_plugins(world.disk, world.enabled_plugins)[d]
        IN  /\ p.name \in ExtraNames => InResult(p.name) = FromExtra(p.name)
            /\ p.name \notin ExtraNames =>
                  InResult(p.name) = IF p.enabled /\ ~p.error THEN 1 ELSE 0

\* C22: load_enabled_plugins looks at every cache entry and never aborts;
\* its result holds no plugin with a load error, no cached plugin whose
\* enabled flag is false and no cached plugin whose name an extra directory
\* already gave; the hooks merged into the registry are those of the
\* plugins of the result and no others
C22_StartupScansAllAndMergesLoaded ==
    startup.done =>
        /\ ~startup.raised
        /\ \A i \in 1..Len(startup.plugins) : ~startup.plugins[i].error
        /\ CacheScanned
        /\ hooks = merge_plugin_hooks(EmptyHooksConfig, startup.plugins)
----------------------------------------------------------------------------
(* Claims about remote sources (SpecClone) *)

\* the URL git is to clone for a source without its ref
UrlOf(base) ==
    IF base \in GitHubRefs THEN GitHubCom \o base \o <<".", "g", "i", "t">> ELSE base

\* C23: a remote source (owner/repo, or a git URL ending in .git or
\* starting with git@) with or without a "#ref" suffix is taken as remote
\* and cloned with --depth 1, with --branch ref when a ref is given, from
\* the reference without the suffix, in add_marketplace and for the
\* {repo, ref} and {url, ref} sources of plugin entries alike
C23_RefSuffixAcceptedOnRemoteSources ==
    clone.done =>
        /\ clone.cmd = <<[depth |-> 1, branch |-> clone.ref, url |-> UrlOf(clone.base)]>>
        /\ clone.fetched => clone.ok
----------------------------------------------------------------------------
(* Claims about component discovery (SpecComponents) *)

\* the object the manifest side contributes
DeclaredObject ==
    CASE components.declared.kind = "inline" -> components.declared.inline
      [] components.declared.kind = "path" /\ components.declared.file # <<>> ->
            components.declared.file[1]
      [] OTHER -> EmptyDict
SidecarObject == IF components.sidecar # <<>> THEN components.sidecar[1] ELSE EmptyDict
DeepMerged ==
    expand_plugin_root(JDict(deep_merge(SidecarObject, DeclaredObject)), PluginRoot).members

\* C24: a plugin's hook config and its tool-server config are both the deep
\* merge of the sidecar file's object with the object the manifest
\* declares (inline or in a referenced file) on top: objects merge key by
\* key, arrays concatenate sidecar first, scalars are overwritten
C24_HooksAndServersAreDeepMerged ==
    components.done =>
        /\ components.hooks_config = DeepMerged
        /\ components.mcp_servers = DeepMerged
----------------------------------------------------------------------------
(* Claims about disabling and enabling (SpecToggle) *)

\* the cached plugins the command before the last one named, by their
\* name or by name@marketplace
NamedBefore ==
    {d \in DOMAIN world.disk.cache :
        LET p == list_plugins(world.disk, EmptyDict)[d]
        IN  world.prev.name \in {p.name, key_full(p.name, p.marketplace)}}

\* C25: after disable_plugin(name, scope) for an installed plugin (from a
\* path or through a marketplace) list_plugins, on the same Config and on
\* a freshly loaded one, reports the plugin with enabled false and
\* load_enabled_plugins leaves it out; after enable_plugin(name, scope)
\* list_plugins reports it enabled
C25_DisablingTakesEffect ==
    \A d \in NamedBefore :
        /\ world.prev.op = "disable" /\ world.last.op \in {"list", "list_fresh"} =>
              ~world.listed[d].enabled
        /\ world.prev.op = "disable" /\ world.last.op = "load_enabled" =>
              d \notin DOMAIN world.listed
        /\ world.prev.op = "enable" /\ world.last.op \in {"list", "list_fresh"} =>
              world.listed[d].enabled

\* the plugins that were cached with a record of their installation through
\* a marketplace at the scope of the last command, and that the last
\* command uninstalled under their bare name
UninstalledMarketPlugins ==
    {d \in DOMAIN world.before.cache :
        /\ world.last.op = "uninstall"
        /\ world.last.name = list_plugins(world.before, EmptyDict)[d].name
        /\ world.before.cache[d].meta # <<>>
        /\ world.before.cache[d].meta[1].marketplace # <<>>
        /\ world.before.cache[d].meta[1].scope = world.last.scope}

\* C26: after a plugin installed through marketplace M at scope s is
\* uninstalled at scope s under its bare name, the enabledPlugins map of
\* scope s has no key for it, neither name nor name@M
C26_UninstallClearsMarketplaceKey ==
    \A d \in UninstalledMarketPlugins :
        LET name == world.last.name
            M == world.before.cache[d].meta[1].marketplace
        IN  /\ name \notin DOMAIN EnabledIn(world.disk, world.last.scope)
            /\ key_full(name, M) \notin DOMAIN EnabledIn(world.disk, world.last.scope)
----------------------------------------------------------------------------
(* Claims about marketplace installs and updates (SpecRemote) *)

\* the first two commands of a session with an empty cache installed two
\* different entries of a marketplace, both with success
TwoEntriesInstalled ==
    /\ world.ops = 2
    /\ world.prev.op = "market_install" /\ ~world.prev.failed /\ ~world.prev.raised
    /\ world.last.op = "market_install" /\ ~world.last.failed /\ ~world.last.raised
    /\ world.prev.name # world.last.name

\* C27: after two successful install_from_marketplace calls for entries
\* with different names list_plugins contains both plugins, whatever the
\* kind of source and whether or not the fetched directory has a manifest
C27_TwoEntriesNeverShareACacheSlot ==
    TwoEntriesInstalled =>
        Cardinality(DOMAIN list_plugins(world.disk, world.enabled_plugins)) = 2

\* the last command was update_plugin; the plugin it named had an install
\* record before
Updated == world.last.op = "update"
UpdatedName == split_at_0(world.last.name)
HadRecord ==
    /\ UpdatedName \in DOMAIN world.before.cache
    /\ world.before.cache[UpdatedName].meta # <<>>

\* C30: update_plugin of an installed plugin whose origin still exists
\* (also one cloned from a remote source through a marketplace) returns
\* the reinstalled Plugin and leaves the record's source, marketplace and
\* scope as they were; it fails, changing nothing, only when the record or
\* the origin is gone
C30_UpdateReinstallsFromRecordedOrigin ==
    Updated =>
        /\ ~world.last.raised
        /\ HadRecord /\ world.last.available =>
              /\ ~world.last.failed
              /\ UpdatedName \in DOMAIN world.disk.cache
              /\ world.disk.cache[UpdatedName].meta = world.before.cache[UpdatedName].meta
        /\ world.last.failed =>
              /\ world.disk = world.before
              /\ ~HadRecord \/ ~world.last.available
----------------------------------------------------------------------------
(* Claims about settings in two dialects (SpecDialects) *)

\* the rules written under the top-level event keys of the user settings,
\* and those written under its hooks key, nested or legacy
TopLevelRules ==
    parse_hooks_config(HooksData(load.files["global"].data.events, NoHooksKey))
HooksKeyRules ==
    merge(parse_hooks_config(HooksData(load.files["global"].data.hooks.events, NoHooksKey)),
          convert_legacy_hooks(load.files["global"].data.hooks.legacy))
Holds(rules, e, rule) == \E i \in 1..Len(rules[e]) : rules[e][i] = rule

\* C28: when a settings object has rules under top-level event keys and
\* also a hooks key (with nested event keys or with a legacy pre:/post:
\* map), the rules of both places are in the registry after the file is
\* applied: none is dropped
C28_NoRuleDroppedAcrossDialects ==
    load.done /\ ~load.raised =>
        \A e \in HOOK_EVENTS :
            /\ \A i \in 1..Len(TopLevelRules[e]) :
                   Holds(load.config.hooks, e, TopLevelRules[e][i])
            /\ \A i \in 1..Len(HooksKeyRules[e]) :
                   Holds(load.config.hooks, e, HooksKeyRules[e][i])
----------------------------------------------------------------------------
(* Claims about the variables of PostToolUse hooks (Spec) *)

\* the PostToolUse dispatch of the call spawned a hook process after the
\* handler ran
PostSpawned ==
    /\ call.wrapped /\ call.handled # <<>>
    /\ Len(call.post.spawned) > 0

\* C29: the FILE variable given to the PostToolUse hooks of a call is the
\* file path the handler received: when a PreToolUse hook replaced
\* file_path or path through its input patch, it is the patched path
C29_PostHooksSeePatchedFile ==
    PostSpawned =>
        \A k \in 1..Len(call.post.spawned) :
            call.post.spawned[k].variables.FILE
                = FileOf(call.handled[Len(call.handled)].args)
====
